---- MODULE Spec2Model ----
(***************************************************************************)
(* The storage and synchronisation engine of jot (crate jot_core): the     *)
(* notes table, the CRUD primitives of db.rs, the last-write-wins merge of *)
(* sync.rs and the schema version of schema.rs.                            *)
(*                                                                         *)
(* Strings are sequences of one-character strings, so that encoding,       *)
(* decoding and matching are computed and not assumed.  Option<T> is a     *)
(* sequence of length 0 (None) or 1 (Some).  A Result is a record with an  *)
(* ok flag.  The notes table is the sequence of its rows in rowid order    *)
(* (rows are only ever appended, never removed, so the rowid order is the  *)
(* insertion order).                                                       *)
(***************************************************************************)
EXTENDS Integers, Sequences, FiniteSets, TLC

VARIABLES
    notes,          \* the notes table of the store: rows in rowid order
    user_version,   \* PRAGMA user_version of the store
    now,            \* the last value read from the wall clock (ms)
    call,           \* the call in progress or last completed, with its arguments
    result,         \* what that call returned
    before,         \* the notes table (for the server, the files) before the call(s) under observation
    pc,             \* position of the caller
    version,        \* the local variable version of a migrate call in progress
    version_before, \* PRAGMA user_version as the last open_db call found it
    sync_state,     \* the sync_state table of the store: its rows in rowid order
    files,          \* the server's per-user databases: path -> notes table and user_version
    rounds          \* the sync requests in progress on the server, one per user

vars ==
    <<notes, user_version, now, call, result, before, pc, version, version_before,
      sync_state, files, rounds>>

\* The variables that the calls on the notes table neither read nor write,
\* and their values where nothing happens to them.
outside == <<version, version_before, sync_state, files, rounds>>
OutsideInit ==
    version = 0 /\ version_before = 0 /\ sync_state = <<>> /\ files = <<>> /\ rounds = <<>>

(***************************************************************************)
(* Bounds of the model.                                                    *)
(***************************************************************************)
MaxTime == 2        \* timestamps range over 0..MaxTime
MaxBatch == 2       \* longest client batch of a sync round
MaxClock == 1       \* the wall clock of a store's life runs over 0..MaxClock
MaxVersion == 4     \* a store is found with a user_version in 0..MaxVersion

(***************************************************************************)
(* Option and Result.                                                      *)
(***************************************************************************)
None == <<>>
Some(x) == <<x>>

Ok(v) == [ok |-> TRUE, val |-> v]
Err == [ok |-> FALSE, val |-> <<>>]

(***************************************************************************)
(* A Rust `let x = e;` followed by the code that uses x:                   *)
(* bind(e, LAMBDA x : body) is body with x standing for the value of e.    *)
(***************************************************************************)
bind(e, body(_)) == body(e)

(***************************************************************************)
(* serde_json::to_string(&Vec<String>): ["t1","t2"], with the quote and    *)
(* the backslash escaped by a backslash.                                   *)
(***************************************************************************)
RECURSIVE json_escape(_)
json_escape(s) ==
    IF s = <<>> THEN <<>>
    ELSE (IF s[1] \in {"\"", "\\"} THEN <<"\\", s[1]>> ELSE <<s[1]>>)
         \o json_escape(Tail(s))

json_string(s) == <<"\"">> \o json_escape(s) \o <<"\"">>

RECURSIVE json_elems(_)
json_elems(tags) ==
    IF tags = <<>> THEN <<>>
    ELSE json_string(tags[1])
         \o (IF Len(tags) > 1 THEN <<",">> ELSE <<>>)
         \o json_elems(Tail(tags))

to_json(tags) == <<"[">> \o json_elems(tags) \o <<"]">>

(***************************************************************************)
(* serde_json::from_str::<Vec<String>>: the text must be one array of      *)
(* strings and nothing else.  parse_string reads the string whose opening  *)
(* quote is at position i - 1; parse_elems reads the elements from         *)
(* position i on.                                                          *)
(***************************************************************************)
RECURSIVE parse_string(_, _, _)
parse_string(s, i, acc) ==
    IF i > Len(s) THEN [ok |-> FALSE, val |-> <<>>, next |-> i]
    ELSE IF s[i] = "\"" THEN [ok |-> TRUE, val |-> acc, next |-> i + 1]
    ELSE IF s[i] = "\\" THEN
        IF i + 1 <= Len(s) /\ s[i + 1] \in {"\"", "\\"}
        THEN parse_string(s, i + 2, Append(acc, s[i + 1]))
        ELSE [ok |-> FALSE, val |-> <<>>, next |-> i]
    ELSE parse_string(s, i + 1, Append(acc, s[i]))

RECURSIVE parse_elems(_, _, _)
parse_elems(s, i, acc) ==
    IF i > Len(s) \/ s[i] # "\"" THEN Err
    ELSE bind(parse_string(s, i + 1, <<>>), LAMBDA e :
         IF ~e.ok \/ e.next > Len(s) THEN Err
         ELSE IF s[e.next] = "," THEN parse_elems(s, e.next + 1, Append(acc, e.val))
         ELSE IF s[e.next] = "]" /\ e.next = Len(s) THEN Ok(Append(acc, e.val))
         ELSE Err)

from_json(s) ==
    IF Len(s) < 2 \/ s[1] # "[" THEN Err
    ELSE IF s = <<"[", "]">> THEN Ok(<<>>)
    ELSE parse_elems(s, 2, <<>>)

(***************************************************************************)
(* models.rs: Note.  A row of the notes table holds the same columns, the  *)
(* tags as their JSON text.                                                *)
(***************************************************************************)
Note(id, content, tags, date, created_at, updated_at, deleted_at) ==
    [id |-> id, content |-> content, tags |-> tags, date |-> date,
     created_at |-> created_at, updated_at |-> updated_at,
     deleted_at |-> deleted_at]

\* The column values bound by the INSERT and UPDATE statements for a note.
row_of_note(note) == [note EXCEPT !.tags = to_json(note.tags)]

\* The row-mapping closure shared by get_note_by_id, search_notes and
\* get_notes_since: the tags column is decoded, a decoding failure is an error.
note_of_rowLenient(row) ==
    bind(from_json(row.tags), LAMBDA t :
    IF t.ok THEN Ok([row EXCEPT !.tags = t.val]) ELSE Ok([row EXCEPT !.tags = <<>>]))

note_of_row(row) ==
    bind(from_json(row.tags), LAMBDA t :
    IF t.ok THEN Ok([row EXCEPT !.tags = t.val]) ELSE Err)

\* The positions of the rows selected by WHERE id = ?.
rows_with_id(tbl, id) == {i \in 1..Len(tbl) : tbl[i].id = id}

Min(S) == CHOOSE m \in S : \A x \in S : m <= x

(***************************************************************************)
(* db.rs: get_note_by_id.  Ok(None) when no row has the id, the decoded    *)
(* first row otherwise.                                                    *)
(***************************************************************************)
get_note_by_id(tbl, id) ==
    bind(rows_with_id(tbl, id), LAMBDA hits :
    IF hits = {} THEN Ok(None)
    ELSE bind(note_of_row(tbl[Min(hits)]), LAMBDA n :
         IF n.ok THEN Ok(Some(n.val)) ELSE Err))

(***************************************************************************)
(* db.rs: create_note.  id is the fresh ULID and t the clock reading.  The *)
(* INSERT fails on a primary key that is already present.                  *)
(***************************************************************************)
create_noteNoStamp(tbl, id, t, content, tags, date) ==
    LET note == Note(id, content, tags, date, t, t, None) IN
    IF rows_with_id(tbl, id) # {}
    THEN [ok |-> FALSE, tbl |-> tbl, val |-> None]
    ELSE [ok |-> TRUE,
          tbl |-> Append(tbl, [row_of_note(note) EXCEPT !.updated_at = 0]),
          val |-> Some(note)]

create_note(tbl, id, t, content, tags, date) ==
    LET note == Note(id, content, tags, date, t, t, None) IN
    IF rows_with_id(tbl, id) # {}
    THEN [ok |-> FALSE, tbl |-> tbl, val |-> None]
    ELSE [ok |-> TRUE, tbl |-> Append(tbl, row_of_note(note)), val |-> Some(note)]

(***************************************************************************)
(* db.rs: update_note.  UPDATE ... WHERE id = ?: no row, no change, Ok.    *)
(***************************************************************************)
update_noteRevives(tbl, id, content, tags, date, t) ==
    [i \in 1..Len(tbl) |->
        IF tbl[i].id = id
        THEN [tbl[i] EXCEPT !.content = content, !.tags = to_json(tags),
                            !.date = date, !.updated_at = t, !.deleted_at = None]
        ELSE tbl[i]]

update_noteInserts(tbl, id, content, tags, date, t) ==
    IF rows_with_id(tbl, id) = {}
    THEN Append(tbl, row_of_note(Note(id, content, tags, date, t, t, None)))
    ELSE [i \in 1..Len(tbl) |->
            IF tbl[i].id = id
            THEN [tbl[i] EXCEPT !.content = content, !.tags = to_json(tags),
                                !.date = date, !.updated_at = t]
            ELSE tbl[i]]

update_note(tbl, id, content, tags, date, t) ==
    [i \in 1..Len(tbl) |->
        IF tbl[i].id = id
        THEN [tbl[i] EXCEPT !.content = content, !.tags = to_json(tags),
                            !.date = date, !.updated_at = t]
        ELSE tbl[i]]

(***************************************************************************)
(* db.rs: soft_delete_note.                                                *)
(***************************************************************************)
soft_delete_noteRemoves(tbl, id, t) ==
    SelectSeq(tbl, LAMBDA r : r.id # id)

soft_delete_noteOnce(tbl, id, t) ==
    [i \in 1..Len(tbl) |->
        IF tbl[i].id = id /\ tbl[i].deleted_at = None
        THEN [tbl[i] EXCEPT !.deleted_at = Some(t), !.updated_at = t]
        ELSE tbl[i]]

soft_delete_note(tbl, id, t) ==
    [i \in 1..Len(tbl) |->
        IF tbl[i].id = id
        THEN [tbl[i] EXCEPT !.deleted_at = Some(t), !.updated_at = t]
        ELSE tbl[i]]

(***************************************************************************)
(* db.rs: get_notes_since.  WHERE updated_at > ?1 ORDER BY updated_at ASC. *)
(* Rows with equal updated_at come in rowid order (the order of the index  *)
(* on updated_at).  The first row that fails to decode makes the call fail.*)
(***************************************************************************)
RECURSIVE order_asc(_, _)
order_asc(tbl, S) ==
    IF S = {} THEN <<>>
    ELSE bind(CHOOSE i \in S : \A j \in S :
                  \/ tbl[i].updated_at < tbl[j].updated_at
                  \/ tbl[i].updated_at = tbl[j].updated_at /\ i <= j,
              LAMBDA m : <<tbl[m]>> \o order_asc(tbl, S \ {m}))

RECURSIVE collect_rowsSkips(_, _)
collect_rowsSkips(rows, acc) ==
    IF rows = <<>> THEN Ok(acc)
    ELSE bind(note_of_row(rows[1]), LAMBDA n :
         IF n.ok THEN collect_rowsSkips(Tail(rows), Append(acc, n.val))
         ELSE collect_rowsSkips(Tail(rows), acc))

RECURSIVE collect_rows(_, _)
collect_rows(rows, acc) ==
    IF rows = <<>> THEN Ok(acc)
    ELSE bind(note_of_row(rows[1]), LAMBDA n :
         IF n.ok THEN collect_rows(Tail(rows), Append(acc, n.val)) ELSE Err)

since_rows(tbl, timestamp) == {i \in 1..Len(tbl) : tbl[i].updated_at > timestamp}

get_notes_sinceInclusive(tbl, timestamp) ==
    bind(order_asc(tbl, {i \in 1..Len(tbl) : tbl[i].updated_at >= timestamp}),
         LAMBDA rows : collect_rows(rows, <<>>))

get_notes_since(tbl, timestamp) ==
    bind(order_asc(tbl, since_rows(tbl, timestamp)),
         LAMBDA rows : collect_rows(rows, <<>>))

(***************************************************************************)
(* db.rs: upsert_note.  Insert when get_note_by_id finds nothing, UPDATE   *)
(* every column when the incoming note is strictly newer, otherwise        *)
(* nothing.                                                                *)
(***************************************************************************)
upsert_noteAlways(tbl, note) ==
    IF rows_with_id(tbl, note.id) # {}
    THEN [ok |-> TRUE,
          tbl |-> [i \in 1..Len(tbl) |->
                      IF tbl[i].id = note.id THEN row_of_note(note) ELSE tbl[i]]]
    ELSE [ok |-> TRUE, tbl |-> Append(tbl, row_of_note(note))]

upsert_noteTieOverwrites(tbl, note) ==
    bind(get_note_by_id(tbl, note.id), LAMBDA existing :
    IF existing.val # None THEN
        IF note.updated_at >= existing.val[1].updated_at
        THEN [ok |-> TRUE,
              tbl |-> [i \in 1..Len(tbl) |->
                          IF tbl[i].id = note.id THEN row_of_note(note) ELSE tbl[i]]]
        ELSE [ok |-> TRUE, tbl |-> tbl]
    ELSE [ok |-> TRUE, tbl |-> Append(tbl, row_of_note(note))])

upsert_noteKeepsDeleted(tbl, note) ==
    bind(get_note_by_id(tbl, note.id), LAMBDA existing :
    IF existing.val # None THEN
        IF note.updated_at > existing.val[1].updated_at
        THEN [ok |-> TRUE,
              tbl |-> [i \in 1..Len(tbl) |->
                          IF tbl[i].id = note.id
                          THEN [row_of_note(note) EXCEPT !.deleted_at = tbl[i].deleted_at]
                          ELSE tbl[i]]]
        ELSE [ok |-> TRUE, tbl |-> tbl]
    ELSE [ok |-> TRUE, tbl |-> Append(tbl, row_of_note(note))])

upsert_noteInsertOnly(tbl, note) ==
    [ok |-> TRUE, tbl |-> Append(tbl, row_of_note(note))]

upsert_note(tbl, note) ==
    bind(get_note_by_id(tbl, note.id), LAMBDA existing :
    IF ~existing.ok THEN [ok |-> FALSE, tbl |-> tbl]
    ELSE IF existing.val # None THEN
        IF note.updated_at > existing.val[1].updated_at
        THEN [ok |-> TRUE,
              tbl |-> [i \in 1..Len(tbl) |->
                          IF tbl[i].id = note.id THEN row_of_note(note) ELSE tbl[i]]]
        ELSE [ok |-> TRUE, tbl |-> tbl]
    ELSE [ok |-> TRUE, tbl |-> Append(tbl, row_of_note(note))])

(***************************************************************************)
(* sync.rs: merge_notes.  merge_step is one pass of the loop over the      *)
(* client notes; st holds the table and the two vectors of the function.   *)
(***************************************************************************)
Range(f) == {f[i] : i \in DOMAIN f}

\* The ids that have a row.
NoteIds(tbl) == {tbl[i].id : i \in 1..Len(tbl)}

merge_writeBlind(st, client_note) ==
    [st EXCEPT !.tbl = Append(st.tbl, row_of_note(client_note))]

merge_write(st, client_note) ==
    bind(upsert_note(st.tbl, client_note), LAMBDA u :
    [st EXCEPT !.ok = u.ok, !.tbl = u.tbl])

merge_stepInverted(st, client_note) ==
    bind([st EXCEPT !.client_note_ids = Append(@, client_note.id)], LAMBDA st1 :
    bind(get_note_by_id(st.tbl, client_note.id), LAMBDA server_note :
        IF ~server_note.ok THEN [st1 EXCEPT !.ok = FALSE]
        ELSE IF server_note.val = None THEN merge_write(st1, client_note)
        ELSE IF client_note.updated_at < server_note.val[1].updated_at
             THEN merge_write(st1, client_note)
        ELSE IF server_note.val[1].updated_at < client_note.updated_at
             THEN [st1 EXCEPT !.notes_to_send = Append(@, server_note.val[1])]
        ELSE st1))

merge_stepNewOnly(st, client_note) ==
    bind([st EXCEPT !.client_note_ids = Append(@, client_note.id)], LAMBDA st1 :
    bind(get_note_by_id(st.tbl, client_note.id), LAMBDA server_note :
        IF ~server_note.ok THEN [st1 EXCEPT !.ok = FALSE]
        ELSE IF server_note.val = None THEN merge_write(st1, client_note)
        ELSE IF server_note.val[1].updated_at > client_note.updated_at
             THEN [st1 EXCEPT !.notes_to_send = Append(@, server_note.val[1])]
        ELSE st1))

merge_step(st, client_note) ==
    bind([st EXCEPT !.client_note_ids = Append(@, client_note.id)], LAMBDA st1 :
    bind(get_note_by_id(st.tbl, client_note.id), LAMBDA server_note :
        IF ~server_note.ok THEN [st1 EXCEPT !.ok = FALSE]
        ELSE IF server_note.val = None THEN merge_write(st1, client_note)
        ELSE IF client_note.updated_at > server_note.val[1].updated_at
             THEN merge_write(st1, client_note)
        ELSE IF server_note.val[1].updated_at > client_note.updated_at
             THEN [st1 EXCEPT !.notes_to_send = Append(@, server_note.val[1])]
        ELSE st1))

RECURSIVE merge_loop(_, _)
merge_loop(st, client_notes) ==
    IF client_notes = <<>> \/ ~st.ok THEN st
    ELSE bind(merge_step(st, client_notes[1]),
              LAMBDA st1 : merge_loop(st1, Tail(client_notes)))

\* The second loop: the notes newer than the watermark that the client did
\* not send and that are not queued already.
RECURSIVE merge_filterKeepsSent(_, _, _)
merge_filterKeepsSent(server_new_notes, notes_to_send, client_note_ids) ==
    IF server_new_notes = <<>> THEN notes_to_send
    ELSE LET note == server_new_notes[1] IN
         bind(IF ~\E k \in 1..Len(notes_to_send) : notes_to_send[k].id = note.id
              THEN Append(notes_to_send, note)
              ELSE notes_to_send,
              LAMBDA sent : merge_filterKeepsSent(Tail(server_new_notes), sent,
                                                  client_note_ids))

RECURSIVE merge_filter(_, _, _)
merge_filter(server_new_notes, notes_to_send, client_note_ids) ==
    IF server_new_notes = <<>> THEN notes_to_send
    ELSE LET note == server_new_notes[1] IN
         bind(IF /\ note.id \notin Range(client_note_ids)
                 /\ ~\E k \in 1..Len(notes_to_send) : notes_to_send[k].id = note.id
              THEN Append(notes_to_send, note)
              ELSE notes_to_send,
              LAMBDA sent : merge_filter(Tail(server_new_notes), sent, client_note_ids))

merge_notesInclusive(tbl, client_notes, client_last_sync) ==
    bind(merge_loop([ok |-> TRUE, tbl |-> tbl, notes_to_send |-> <<>>,
                     client_note_ids |-> <<>>], client_notes), LAMBDA st :
        IF ~st.ok THEN [ok |-> FALSE, tbl |-> st.tbl, val |-> <<>>]
        ELSE bind(get_notes_sinceInclusive(st.tbl, client_last_sync), LAMBDA server_new_notes :
             IF ~server_new_notes.ok THEN [ok |-> FALSE, tbl |-> st.tbl, val |-> <<>>]
             ELSE [ok |-> TRUE, tbl |-> st.tbl,
                   val |-> merge_filter(server_new_notes.val, st.notes_to_send,
                                        st.client_note_ids)]))

merge_notes(tbl, client_notes, client_last_sync) ==
    bind(merge_loop([ok |-> TRUE, tbl |-> tbl, notes_to_send |-> <<>>,
                     client_note_ids |-> <<>>], client_notes), LAMBDA st :
        IF ~st.ok THEN [ok |-> FALSE, tbl |-> st.tbl, val |-> <<>>]
        ELSE bind(get_notes_since(st.tbl, client_last_sync), LAMBDA server_new_notes :
             IF ~server_new_notes.ok THEN [ok |-> FALSE, tbl |-> st.tbl, val |-> <<>>]
             ELSE [ok |-> TRUE, tbl |-> st.tbl,
                   val |-> merge_filter(server_new_notes.val, st.notes_to_send,
                                        st.client_note_ids)]))

(***************************************************************************)
(* The values the inputs are drawn from.  A client note is one of two      *)
(* variants: an active note, or a tombstone with other content, tags, date *)
(* and creation time.  The first id comes in both variants, the second     *)
(* (the unrelated note of a round) only as an active note.                 *)
(***************************************************************************)
Ids == {<<"A", "B">>, <<"A", "C">>}
Variants == {1, 2}
VariantsOf(id) == IF id = <<"A", "B">> THEN Variants ELSE {1}
Contents == << <<"a", "b">>, <<"A">> >>
TagLists == << <<>>, << <<"a", "r", "t">>, <<"x", "\"", "\\">> >> >>
Dates == << None, Some(<<"2", "0", "2", "5", "-", "0", "1", "-", "0", "1">>) >>
Times == 0..MaxTime

ClientNote(id, v, u) ==
    Note(id, Contents[v], TagLists[v], Dates[v], 2 - v, u,
         IF v = 2 THEN Some(u) ELSE None)

ClientNotes ==
    UNION {{ClientNote(id, v, u) : v \in VariantsOf(id), u \in 1..MaxTime} : id \in Ids}

Batches == UNION {[1..n -> ClientNotes] : n \in 0..MaxBatch}

\* The tables a store can hold after earlier sync rounds: rows of client
\* notes, at most one per id, in any insertion order.
Tables ==
    {t \in UNION {[1..n -> {row_of_note(c) : c \in ClientNotes}] : n \in 0..Cardinality(Ids)} :
        \A i, j \in 1..Len(t) : i # j => t[i].id # t[j].id}

NoCall == [name |-> "none", args |-> <<>>]
NoResult == [ok |-> TRUE, val |-> <<>>]

(***************************************************************************)
(* SQLite text semantics.  Ascii lists the characters of the model in      *)
(* byte order, so that comparing positions compares bytes; text columns    *)
(* are compared byte by byte (BINARY collation).  LIKE folds the case of   *)
(* ASCII letters, % matches any run of characters and _ any one character. *)
(***************************************************************************)
Ascii ==
    <<"\"", "%", ",", "-",
      "0", "1", "2", "3", "4", "5", "6", "7", "8", "9",
      "A", "B", "C", "D", "E", "F", "G", "H", "I", "J", "K", "L", "M",
      "N", "O", "P", "Q", "R", "S", "T", "U", "V", "W", "X", "Y", "Z",
      "[", "\\", "]", "_",
      "a", "b", "c", "d", "e", "f", "g", "h", "i", "j", "k", "l", "m",
      "n", "o", "p", "q", "r", "s", "t", "u", "v", "w", "x", "y", "z">>

Bytes == [c \in {Ascii[k] : k \in 1..Len(Ascii)} |->
              CHOOSE k \in 1..Len(Ascii) : Ascii[k] = c]

byte(c) == Bytes[c]

\* The upper-case letters are at 15..40, the lower-case letters at 45..70.
Folded == [c \in DOMAIN Bytes |-> IF Bytes[c] \in 15..40 THEN Ascii[Bytes[c] + 30] ELSE c]

fold(c) == Folded[c]

RECURSIVE text_le(_, _)
text_le(a, b) ==
    IF a = <<>> THEN TRUE
    ELSE IF b = <<>> THEN FALSE
    ELSE IF a[1] = b[1] THEN text_le(Tail(a), Tail(b))
    ELSE byte(a[1]) < byte(b[1])

RECURSIVE like(_, _)
like(text, pattern) ==
    IF pattern = <<>> THEN text = <<>>
    ELSE IF pattern[1] = "%"
         THEN like(text, Tail(pattern)) \/ (text # <<>> /\ like(Tail(text), pattern))
    ELSE /\ text # <<>>
         /\ pattern[1] = "_" \/ fold(pattern[1]) = fold(text[1])
         /\ like(Tail(text), Tail(pattern))

(***************************************************************************)
(* models.rs: SearchQuery, and db.rs: search_notes.  row_matches is the    *)
(* WHERE clause the function assembles.  ORDER BY updated_at DESC leaves   *)
(* the order of rows with equal updated_at to the query plan, so the       *)
(* function has one outcome per admissible order; LIMIT cuts the ordered   *)
(* list and only the rows returned are decoded.                            *)
(***************************************************************************)
SearchQuery(text, tags, date_from, date_to, include_deleted, limit) ==
    [text |-> text, tags |-> tags, date_from |-> date_from, date_to |-> date_to,
     include_deleted |-> include_deleted, limit |-> limit]

row_matchesAny(row, query) ==
    /\ query.include_deleted \/ row.deleted_at = None
    /\ \/ query.text = None /\ query.date_from = None /\ query.date_to = None
             /\ query.tags = <<>>
       \/ query.text # None /\ like(row.content, <<"%">> \o query.text[1] \o <<"%">>)
       \/ query.date_from # None /\ row.date # None
             /\ text_le(query.date_from[1], row.date[1])
       \/ query.date_to # None /\ row.date # None
             /\ text_le(row.date[1], query.date_to[1])
       \/ \E k \in 1..Len(query.tags) :
              like(row.tags, <<"%", "\"">> \o query.tags[k] \o <<"%">>)

row_matchesExclusive(row, query) ==
    /\ query.include_deleted \/ row.deleted_at = None
    /\ query.text # None => like(row.content, <<"%">> \o query.text[1] \o <<"%">>)
    /\ query.date_from # None =>
          row.date # None /\ ~text_le(row.date[1], query.date_from[1])
    /\ query.date_to # None =>
          row.date # None /\ ~text_le(query.date_to[1], row.date[1])
    /\ \A k \in 1..Len(query.tags) :
          like(row.tags, <<"%", "\"">> \o query.tags[k] \o <<"%">>)

row_matches(row, query) ==
    /\ query.include_deleted \/ row.deleted_at = None
    /\ query.text # None => like(row.content, <<"%">> \o query.text[1] \o <<"%">>)
    /\ query.date_from # None =>
          row.date # None /\ text_le(query.date_from[1], row.date[1])
    /\ query.date_to # None =>
          row.date # None /\ text_le(row.date[1], query.date_to[1])
    /\ \A k \in 1..Len(query.tags) :
          like(row.tags, <<"%", "\"">> \o query.tags[k] \o <<"%">>)

orders_descRowid(tbl, S) ==
    {o \in [1..Cardinality(S) -> S] : \A i, j \in 1..Cardinality(S) : i < j => o[i] < o[j]}

\* The orders ORDER BY updated_at DESC admits for the rows at positions S.
orders_desc(tbl, S) ==
    {o \in [1..Cardinality(S) -> S] :
        /\ \A i, j \in 1..Cardinality(S) : i # j => o[i] # o[j]
        /\ \A i, j \in 1..Cardinality(S) :
              i < j => tbl[o[i]].updated_at >= tbl[o[j]].updated_at}

take(seq, limit) ==
    IF limit = None \/ limit[1] >= Len(seq) THEN seq ELSE SubSeq(seq, 1, limit[1])

search_notesCapsFirst(tbl, query) ==
    {bind([k \in DOMAIN o |-> tbl[o[k]]], LAMBDA rows : collect_rows(rows, <<>>)) :
        o \in UNION {orders_desc(tbl, {c[k] : k \in DOMAIN c}) :
                 c \in {take(first, query.limit) :
                        first \in orders_descRowid(tbl,
                            {i \in 1..Len(tbl) : row_matches(tbl[i], query)})}}}

search_notes(tbl, query) ==
    {bind(take([k \in DOMAIN o |-> tbl[o[k]]], query.limit),
          LAMBDA rows : collect_rows(rows, <<>>)) :
        o \in orders_desc(tbl, {i \in 1..Len(tbl) : row_matches(tbl[i], query)})}

(***************************************************************************)
(* cli/src/db.rs: LocalDb::get_note_by_id.  The exact lookup of the core   *)
(* comes first; when it finds nothing, the notes of a search with the      *)
(* default query are filtered by str::starts_with, and the lookup fails    *)
(* when more than one is left.  The function has one outcome for each      *)
(* outcome of the search.                                                  *)
(***************************************************************************)
starts_with(s, prefix) ==
    Len(prefix) <= Len(s) /\ SubSeq(s, 1, Len(prefix)) = prefix

Ambiguous(id, n) == [ok |-> FALSE, val |-> <<"Ambiguous ID", id, n>>]

prefix_matchesFirst(matches, id) ==
    IF Len(matches) = 0 THEN Ok(None) ELSE Ok(Some(matches[1]))

prefix_matches(matches, id) ==
    IF Len(matches) = 0 THEN Ok(None)
    ELSE IF Len(matches) = 1 THEN Ok(Some(matches[1]))
    ELSE Ambiguous(id, Len(matches))

local_get_note_by_id(tbl, id) ==
    IF ~get_note_by_id(tbl, id).ok THEN {Err}
    ELSE IF get_note_by_id(tbl, id).val # None THEN {get_note_by_id(tbl, id)}
    ELSE {IF ~all_notes.ok THEN Err
          ELSE prefix_matches(SelectSeq(all_notes.val, LAMBDA note : starts_with(note.id, id)),
                              id) :
             all_notes \in search_notes(tbl, SearchQuery(None, <<>>, None, None, FALSE, None))}

(***************************************************************************)
(* schema.rs: migrate, and db.rs: open_db.  A migrate call in progress is  *)
(* the pair of the persisted user_version and the local variable version.  *)
(* Version 0 takes SCHEMA_V1 and version 1 takes MIGRATION_V1_TO_V2; each  *)
(* batch ends with the PRAGMA that persists its version, and the code sets *)
(* the local variable after it.  MIGRATION_V1_TO_V2 renames a column and   *)
(* keeps every row.  Version 2 is current, any other version is an error.  *)
(***************************************************************************)
LatestVersion == 2

migrate_read(stored) == [user_version |-> stored, version |-> stored]

migrate_v1Jumps(st) ==
    IF st.version = 0 THEN [user_version |-> 2, version |-> 2] ELSE st

migrate_v1(st) ==
    IF st.version = 0 THEN [user_version |-> 1, version |-> 1] ELSE st

migrate_v2Downgrades(st) ==
    IF st.version >= 1 THEN [user_version |-> 2, version |-> 2] ELSE st

migrate_v2(st) ==
    IF st.version = 1 THEN [user_version |-> 2, version |-> 2] ELSE st

migrate_result(st) == [ok |-> st.version = 2, val |-> <<>>]

\* The whole call, on a store whose persisted version is stored.
migrate(stored) ==
    LET st == migrate_v2(migrate_v1(migrate_read(stored)))
    IN  [ok |-> migrate_result(st).ok, version |-> st.user_version]

open_db(stored) == migrate(stored)

(***************************************************************************)
(* db.rs: get_sync_state and set_sync_state, on the sync_state table (key  *)
(* TEXT PRIMARY KEY, value TEXT NOT NULL).  INSERT OR REPLACE deletes the  *)
(* row that holds the key, if there is one, and inserts the new row.       *)
(* cli/src/db.rs: get_last_sync and set_last_sync keep an i64 under the    *)
(* key "last_sync", written in decimal.                                    *)
(***************************************************************************)
rows_with_key(tbl, key) == {i \in 1..Len(tbl) : tbl[i].key = key}

get_sync_state(tbl, key) ==
    IF rows_with_key(tbl, key) = {} THEN Ok(None)
    ELSE Ok(Some(tbl[Min(rows_with_key(tbl, key))].value))

set_sync_stateInserts(tbl, key, value) ==
    Append(tbl, [key |-> key, value |-> value])

set_sync_stateClears(tbl, key, value) ==
    <<[key |-> key, value |-> value]>>

set_sync_state(tbl, key, value) ==
    Append(SelectSeq(tbl, LAMBDA row : row.key # key), [key |-> key, value |-> value])

Digits == <<"0", "1", "2", "3", "4", "5", "6", "7", "8", "9">>

RECURSIVE digits(_)
digits(n) == IF n < 10 THEN <<Digits[n + 1]>> ELSE Append(digits(n \div 10), Digits[(n % 10) + 1])

\* i64::to_string
to_string(n) == IF n < 0 THEN <<"-">> \o digits(0 - n) ELSE digits(n)

RECURSIVE value_of(_, _)
value_of(s, acc) ==
    IF s = <<>> THEN acc
    ELSE value_of(Tail(s), 10 * acc + (CHOOSE d \in 0..9 : Digits[d + 1] = s[1]))

\* str::parse::<i64>, for values that fit: an optional sign and one or more
\* decimal digits.
parse_i64(s) ==
    LET body == IF s # <<>> /\ s[1] \in {"+", "-"} THEN Tail(s) ELSE s IN
    IF body = <<>> \/ \E k \in 1..Len(body) : body[k] \notin Range(Digits)
    THEN Err
    ELSE Ok(IF s[1] = "-" THEN 0 - value_of(body, 0) ELSE value_of(body, 0))

last_sync == <<"l", "a", "s", "t", "_", "s", "y", "n", "c">>

get_last_sync(tbl) ==
    bind(get_sync_state(tbl, last_sync), LAMBDA r :
        IF ~r.ok THEN Err
        ELSE IF r.val = None THEN Ok(0)
        ELSE IF parse_i64(r.val[1]).ok THEN Ok(parse_i64(r.val[1]).val)
        ELSE Ok(0))

set_last_sync(tbl, timestamp) == set_sync_state(tbl, last_sync, to_string(timestamp))

(***************************************************************************)
(* server: state.rs, AppState::user_db_path, and router/sync.rs,           *)
(* perform_sync.  A file is the notes table and the user_version of one    *)
(* database; a path that has no file yet opens as a fresh one.  A request  *)
(* is the notes and the last_sync of a SyncRequestDto (the conversions     *)
(* between NoteDto and Note copy every field).  perform_sync is the whole  *)
(* handler on the files fs; sync_open, sync_step and sync_finish are its   *)
(* statements on a round r: open_db, one pass of the loop of merge_notes,  *)
(* and the rest of merge_notes.                                            *)
(***************************************************************************)
user_db_pathShared(user_id) == <<"users", <<".", "d", "b">>>>

user_db_path(user_id) == <<"users", user_id \o <<".", "d", "b">>>>

FreshFile == [notes |-> <<>>, user_version |-> 0]

SyncRequest(request_notes, request_last_sync) ==
    [notes |-> request_notes, last_sync |-> request_last_sync]

perform_sync(fs, user_id, request) ==
    bind(user_db_path(user_id), LAMBDA path :
    bind(open_db(fs[path].user_version), LAMBDA conn :
        IF ~conn.ok
        THEN [files |-> [fs EXCEPT ![path].user_version = conn.version], response |-> Err]
        ELSE bind(merge_notes(fs[path].notes, request.notes, request.last_sync), LAMBDA m :
             [files |-> [fs EXCEPT ![path] = [notes |-> m.tbl, user_version |-> conn.version]],
              response |-> IF m.ok THEN Ok(m.val) ELSE Err])))

Round(user_id, request) ==
    [user |-> user_id, request |-> request, pc |-> "open", i |-> 1,
     notes_to_send |-> <<>>, client_note_ids |-> <<>>, response |-> NoResult]

sync_open(fs, r) ==
    bind(user_db_path(r.user), LAMBDA path :
    bind(open_db(fs[path].user_version), LAMBDA conn :
        [files |-> [fs EXCEPT ![path].user_version = conn.version],
         round |-> IF conn.ok THEN [r EXCEPT !.pc = "loop"]
                   ELSE [r EXCEPT !.pc = "done", !.response = Err]]))

sync_step(fs, r) ==
    bind(user_db_path(r.user), LAMBDA path :
    bind(merge_step([ok |-> TRUE, tbl |-> fs[path].notes,
                     notes_to_send |-> r.notes_to_send,
                     client_note_ids |-> r.client_note_ids], r.request.notes[r.i]),
         LAMBDA st :
        [files |-> [fs EXCEPT ![path].notes = st.tbl],
         round |-> IF st.ok
                   THEN [r EXCEPT !.i = @ + 1, !.notes_to_send = st.notes_to_send,
                                  !.client_note_ids = st.client_note_ids]
                   ELSE [r EXCEPT !.pc = "done", !.response = Err]]))

sync_finish(fs, r) ==
    bind(get_notes_since(fs[user_db_path(r.user)].notes, r.request.last_sync),
         LAMBDA server_new_notes :
        [files |-> fs,
         round |-> IF server_new_notes.ok
                   THEN [r EXCEPT !.pc = "done",
                                  !.response = Ok(merge_filter(server_new_notes.val,
                                                               r.notes_to_send,
                                                               r.client_note_ids))]
                   ELSE [r EXCEPT !.pc = "done", !.response = Err]])

(***************************************************************************)
(* A device that syncs with the server, as the specification describes it: *)
(* it sends the notes of its store changed since its watermark, with the   *)
(* watermark as last_sync, applies the notes of the response to its store  *)
(* by upsert_note, and keeps as its new watermark the greatest updated_at  *)
(* it has seen.  The store is read and written through LocalDb             *)
(* (get_last_sync, get_notes_since, upsert_note, set_last_sync) and the    *)
(* request is handled by perform_sync.  A round that fails changes neither *)
(* the store nor the watermark.                                            *)
(***************************************************************************)
RECURSIVE upsert_all(_, _)
upsert_all(tbl, ns) ==
    IF ns = <<>> THEN [ok |-> TRUE, tbl |-> tbl]
    ELSE bind(upsert_note(tbl, ns[1]), LAMBDA u :
         IF ~u.ok THEN u ELSE upsert_all(u.tbl, Tail(ns)))

Max(S) == CHOOSE m \in S : \A x \in S : x <= m

max_seen(watermark, ns) == Max({watermark} \cup {ns[k].updated_at : k \in 1..Len(ns)})

client_round(local, state, fs, user_id) ==
    bind(get_last_sync(state), LAMBDA w :
    bind(get_notes_since(local, w.val), LAMBDA changed :
    bind(perform_sync(fs, user_id, SyncRequest(changed.val, w.val)), LAMBDA sync :
        IF ~sync.response.ok
        THEN [ok |-> FALSE, notes |-> local, sync_state |-> state, files |-> sync.files]
        ELSE bind(upsert_all(local, sync.response.val), LAMBDA applied :
             [ok |-> applied.ok, notes |-> applied.tbl,
              sync_state |-> set_last_sync(state,
                                 max_seen(w.val, changed.val \o sync.response.val)),
              files |-> sync.files]))))

(***************************************************************************)
(* Spec: the life of one store.  Init is the store after open_db on a      *)
(* fresh file.  The caller is idle (pc = "idle") or holds the result of    *)
(* the call it just made (pc = "returned", with the call, its result and   *)
(* the table before it); Return takes it back to idle.  Each other action  *)
(* is one call of the core API on the store.  Tick is the wall clock       *)
(* advancing; a call that reads the clock reads now.  A sync round of the  *)
(* life of the store carries at most one note (SyncSpec runs the rounds    *)
(* with longer batches, from every table).                                 *)
(***************************************************************************)
AnyQuery == SearchQuery(None, <<>>, None, None, FALSE, None)

Queries ==
    {AnyQuery,
     [AnyQuery EXCEPT !.include_deleted = TRUE],
     [AnyQuery EXCEPT !.include_deleted = TRUE, !.limit = Some(1)],
     [AnyQuery EXCEPT !.tags = << <<"a", "r", "t">> >>],
     [AnyQuery EXCEPT !.text = Some(<<"a">>)],
     [AnyQuery EXCEPT !.date_from = Dates[2], !.date_to = Dates[2]]}

ShortBatches == {b \in Batches : Len(b) <= 1}

Init ==
    /\ notes = <<>>
    /\ user_version = open_db(0).version
    /\ now = 0
    /\ call = NoCall
    /\ result = NoResult
    /\ before = <<>>
    /\ pc = "idle"
    /\ OutsideInit

\* Ulid::new(): an id no row has, if the ids of the model are not used up.
\* Which of the unused ids it is does not matter to any operation.
FreshId(tbl) ==
    LET unused == Ids \ NoteIds(tbl) IN
    IF unused = {} THEN {}
    ELSE {CHOOSE id \in unused : \A other \in unused : text_le(id, other)}

\* The idle caller has made the call c, which returned r and left the table
\* tbl.
Returns(c, r, tbl) ==
    /\ pc' = "returned"
    /\ call' = c
    /\ result' = r
    /\ before' = notes
    /\ notes' = tbl

Return ==
    /\ pc = "returned"
    /\ pc' = "idle"
    /\ call' = NoCall
    /\ result' = NoResult
    /\ before' = <<>>
    /\ UNCHANGED <<notes, user_version, now>>
    /\ UNCHANGED outside

Tick ==
    /\ pc = "idle"
    /\ now < MaxClock
    /\ now' = now + 1
    /\ UNCHANGED <<notes, user_version, call, result, before, pc>>
    /\ UNCHANGED outside

OpenDb ==
    /\ pc = "idle"
    /\ \E r \in {open_db(user_version)} :
        /\ Returns([name |-> "open_db", args |-> <<>>], [ok |-> r.ok, val |-> <<>>], notes)
        /\ user_version' = r.version
        /\ UNCHANGED now
    /\ UNCHANGED outside

CreateNote ==
    /\ pc = "idle"
    /\ \E id \in FreshId(notes), v \in Variants :
        \E r \in {create_note(notes, id, now, Contents[v], TagLists[v], Dates[v])} :
        /\ Returns([name |-> "create_note",
                    args |-> <<Contents[v], TagLists[v], Dates[v]>>],
                   [ok |-> r.ok, val |-> r.val], r.tbl)
        /\ UNCHANGED <<user_version, now>>
    /\ UNCHANGED outside

UpdateNote ==
    /\ pc = "idle"
    /\ \E id \in Ids, v \in Variants :
        /\ Returns([name |-> "update_note",
                    args |-> <<id, Contents[v], TagLists[v], Dates[v]>>],
                   NoResult,
                   update_note(notes, id, Contents[v], TagLists[v], Dates[v], now))
        /\ UNCHANGED <<user_version, now>>
    /\ UNCHANGED outside

SoftDeleteNote ==
    /\ pc = "idle"
    /\ \E id \in Ids :
        /\ Returns([name |-> "soft_delete_note", args |-> <<id>>], NoResult,
                   soft_delete_note(notes, id, now))
        /\ UNCHANGED <<user_version, now>>
    /\ UNCHANGED outside

UpsertNote ==
    /\ pc = "idle"
    /\ \E note \in ClientNotes :
        \E r \in {upsert_note(notes, note)} :
        /\ Returns([name |-> "upsert_note", args |-> <<note>>],
                   [ok |-> r.ok, val |-> <<>>], r.tbl)
        /\ UNCHANGED <<user_version, now>>
    /\ UNCHANGED outside

MergeNotes ==
    /\ pc = "idle"
    /\ \E b \in ShortBatches, t \in Times :
        \E r \in {merge_notes(notes, b, t)} :
        /\ Returns([name |-> "merge_notes", args |-> <<b, t>>],
                   [ok |-> r.ok, val |-> r.val], r.tbl)
        /\ UNCHANGED <<user_version, now>>
    /\ UNCHANGED outside

GetNoteById ==
    /\ pc = "idle"
    /\ \E id \in Ids :
        /\ Returns([name |-> "get_note_by_id", args |-> <<id>>],
                   get_note_by_id(notes, id), notes)
        /\ UNCHANGED <<user_version, now>>
    /\ UNCHANGED outside

SearchNotes ==
    /\ pc = "idle"
    /\ \E query \in Queries : \E r \in search_notes(notes, query) :
        /\ Returns([name |-> "search_notes", args |-> <<query>>], r, notes)
        /\ UNCHANGED <<user_version, now>>
    /\ UNCHANGED outside

GetNotesSince ==
    /\ pc = "idle"
    /\ \E t \in Times :
        /\ Returns([name |-> "get_notes_since", args |-> <<t>>],
                   get_notes_since(notes, t), notes)
        /\ UNCHANGED <<user_version, now>>
    /\ UNCHANGED outside

Next ==
    \/ Tick
    \/ OpenDb
    \/ CreateNote
    \/ UpdateNote
    \/ SoftDeleteNote
    \/ UpsertNote
    \/ MergeNotes
    \/ GetNoteById
    \/ SearchNotes
    \/ GetNotesSince
    \/ Return

Spec == Init /\ [][Next]_vars

(***************************************************************************)
(* UpsertSpec: upsert_note applied to any table and any note, then to a    *)
(* second note.  before is the table the caller started from, call.args    *)
(* the notes upserted so far.                                              *)
(***************************************************************************)
UpsertInit ==
    /\ notes \in Tables
    /\ user_version = 2
    /\ now = 0
    /\ call = NoCall
    /\ result = NoResult
    /\ before = notes
    /\ pc = "start"
    /\ OutsideInit

UpsertFirst ==
    /\ pc = "start"
    /\ \E note \in ClientNotes :
          \E r \in {upsert_note(notes, note)} :
          /\ notes' = r.tbl
          /\ call' = [name |-> "upsert_note", args |-> <<note>>]
          /\ result' = [ok |-> r.ok, val |-> <<>>]
    /\ pc' = "first"
    /\ UNCHANGED <<user_version, now, before>>
    /\ UNCHANGED outside

UpsertSecond ==
    /\ pc = "first"
    /\ \E note \in ClientNotes :
          \E r \in {upsert_note(notes, note)} :
          /\ notes' = r.tbl
          /\ call' = [call EXCEPT !.args = Append(@, note)]
          /\ result' = [ok |-> r.ok, val |-> <<>>]
    /\ pc' = "second"
    /\ UNCHANGED <<user_version, now, before>>
    /\ UNCHANGED outside

UpsertNext == UpsertFirst \/ UpsertSecond

UpsertSpec == UpsertInit /\ [][UpsertNext]_vars

(***************************************************************************)
(* SyncSpec: the server side.  On any table, either one merge_notes round  *)
(* with any request, followed by a replay of the same round, or one        *)
(* get_notes_since call.  For the replay, before is the table the replay   *)
(* started from.                                                           *)
(***************************************************************************)
SyncInit ==
    /\ notes \in Tables
    /\ user_version = 2
    /\ now = 0
    /\ \/ \E b \in Batches, t \in Times :
             call = [name |-> "merge_notes", args |-> <<b, t>>]
       \/ \E t \in Times :
             call = [name |-> "get_notes_since", args |-> <<t>>]
    /\ result = NoResult
    /\ before = notes
    /\ pc = "start"
    /\ OutsideInit

SyncRound ==
    /\ pc = "start"
    /\ call.name = "merge_notes"
    /\ \E r \in {merge_notes(notes, call.args[1], call.args[2])} :
       /\ notes' = r.tbl
       /\ result' = [ok |-> r.ok, val |-> r.val]
    /\ pc' = "merged"
    /\ UNCHANGED <<user_version, now, call, before>>
    /\ UNCHANGED outside

SyncReplay ==
    /\ pc = "merged"
    /\ \E r \in {merge_notes(notes, call.args[1], call.args[2])} :
       /\ notes' = r.tbl
       /\ result' = [ok |-> r.ok, val |-> r.val]
    /\ before' = notes
    /\ pc' = "replayed"
    /\ UNCHANGED <<user_version, now, call>>
    /\ UNCHANGED outside

SyncSince ==
    /\ pc = "start"
    /\ call.name = "get_notes_since"
    /\ result' = get_notes_since(notes, call.args[1])
    /\ pc' = "done"
    /\ UNCHANGED <<notes, user_version, now, call, before>>
    /\ UNCHANGED outside

SyncNext == SyncRound \/ SyncReplay \/ SyncSince

SyncSpec == SyncInit /\ [][SyncNext]_vars

(***************************************************************************)
(* SearchSpec: search_notes as a function of the table and the query.  The *)
(* table holds up to two notes: one whose content, tags, date, deletion    *)
(* and updated_at vary independently, and possibly a client note of the    *)
(* other id, before or after it.  The query combines the filters freely.   *)
(* One action runs the query on the table and keeps one of its outcomes.   *)
(***************************************************************************)
SearchContents == {<<"a", "b">>, <<"A">>, <<"b">>}

SearchNotes1 ==
    {Note(<<"A", "B">>, c, TagLists[g], Dates[d], 0, u, IF del THEN Some(u) ELSE None) :
        c \in SearchContents, g \in 1..2, d \in 1..2, u \in 1..MaxTime, del \in BOOLEAN}

SearchNotes2 == {ClientNote(<<"A", "C">>, v, u) : v \in Variants, u \in 1..MaxTime}

SearchTables ==
    {<<>>}
    \cup {<<row_of_note(n)>> : n \in SearchNotes1}
    \cup {<<row_of_note(n), row_of_note(m)>> : n \in SearchNotes1, m \in SearchNotes2}
    \cup {<<row_of_note(m), row_of_note(n)>> : n \in SearchNotes1, m \in SearchNotes2}

SearchQueries ==
    {SearchQuery(text, tags, date_from, date_to, include_deleted, limit) :
        text \in {None, Some(<<"a">>)},
        tags \in {<<>>, << <<"a", "r", "t">> >>},
        date_from \in {None, Dates[2]},
        date_to \in {None, Dates[2]},
        include_deleted \in BOOLEAN,
        limit \in {None, Some(1), Some(2)}}

SearchInit ==
    /\ notes \in SearchTables
    /\ user_version = 2
    /\ now = 0
    /\ call \in {[name |-> "search_notes", args |-> <<query>>] : query \in SearchQueries}
    /\ result = NoResult
    /\ before = notes
    /\ pc = "start"
    /\ OutsideInit

SearchRun ==
    /\ pc = "start"
    /\ \E r \in search_notes(notes, call.args[1]) : result' = r
    /\ pc' = "searched"
    /\ UNCHANGED <<notes, user_version, now, call, before>>
    /\ UNCHANGED outside

SearchNext == SearchRun

SearchSpec == SearchInit /\ [][SearchNext]_vars

(***************************************************************************)
(* FilterSpec: search_notes on the values that tell the filters apart.     *)
(* The first row of the table is an active note whose content, tags and    *)
(* date vary independently: contents that differ in letter case and that   *)
(* hold the characters LIKE reads as wildcards, tags that extend one       *)
(* another on either side, dates before, at and after the bounds of the    *)
(* queries.  A second row, when there is one, is a note with no tags and   *)
(* no date.  The queries are uncapped and combine the three filters.       *)
(***************************************************************************)
FilterContents == {<<"a", "b">>, <<"A">>, <<"b">>, <<"a", "_", "b">>, <<>>}

FilterTagLists ==
    {<<>>, TagLists[2], << <<"c", "a", "r", "t">> >>, << <<"A", "r", "t">> >>}

iso(y, m, d) == Some(y \o <<"-">> \o m \o <<"-">> \o d)

\* Four days in calendar order, in the form YYYY-MM-DD.
Days ==
    <<iso(<<"2", "0", "2", "4">>, <<"1", "2">>, <<"3", "1">>),
      iso(<<"2", "0", "2", "5">>, <<"0", "1">>, <<"0", "1">>),
      iso(<<"2", "0", "2", "5">>, <<"0", "1">>, <<"1", "0">>),
      iso(<<"2", "0", "2", "5">>, <<"0", "2">>, <<"0", "1">>)>>

FilterDates == {None} \cup {Days[k] : k \in 1..Len(Days)}

FilterNotes ==
    {Note(<<"A", "B">>, c, g, d, 0, 1, None) :
        c \in FilterContents, g \in FilterTagLists, d \in FilterDates}

FilterTables ==
    {<<row_of_note(n)>> : n \in FilterNotes}
    \cup {<<row_of_note(n), row_of_note(ClientNote(<<"A", "C">>, 1, 1))>> : n \in FilterNotes}

FilterQueries ==
    {SearchQuery(text, tags, date_from, date_to, FALSE, None) :
        text \in {None, Some(<<"a">>), Some(<<"A">>), Some(<<"_">>), Some(<<"%">>),
                  Some(<<"a", "b">>)},
        tags \in {<<>>, << <<"a", "r", "t">> >>, << <<"c", "a", "r">> >>,
                  << <<"c", "a", "r", "t">> >>,
                  << <<"a", "r", "t">>, <<"x", "\"", "\\">> >>},
        date_from \in {None, Days[2]},
        date_to \in {None, Days[2], Days[3]}}

FilterInit ==
    /\ notes \in FilterTables
    /\ user_version = 2
    /\ now = 0
    /\ call \in {[name |-> "search_notes", args |-> <<query>>] : query \in FilterQueries}
    /\ result = NoResult
    /\ before = notes
    /\ pc = "start"
    /\ OutsideInit

FilterSpec == FilterInit /\ [][SearchNext]_vars

(***************************************************************************)
(* MigrateSpec: open_db, again and again, on a store found at any version. *)
(* A store at version 0 is a fresh file and has no rows; a store at a      *)
(* later version holds any table.  The call is taken statement by          *)
(* statement: it reads the persisted version, passes the two migration     *)
(* steps and returns.                                                      *)
(***************************************************************************)
MigrateInit ==
    /\ user_version \in 0..MaxVersion
    /\ notes \in IF user_version = 0 THEN {<<>>} ELSE Tables
    /\ now = 0
    /\ call = NoCall
    /\ result = NoResult
    /\ before = <<>>
    /\ pc = "idle"
    /\ OutsideInit

MigrateStart ==
    /\ pc = "idle"
    /\ call' = [name |-> "open_db", args |-> <<>>]
    /\ before' = notes
    /\ version' = migrate_read(user_version).version
    /\ version_before' = user_version
    /\ pc' = "migrate_v1"
    /\ UNCHANGED <<notes, user_version, now, result, sync_state, files, rounds>>

MigrateV1 ==
    /\ pc = "migrate_v1"
    /\ \E st \in {migrate_v1([user_version |-> user_version, version |-> version])} :
        /\ user_version' = st.user_version
        /\ version' = st.version
    /\ pc' = "migrate_v2"
    /\ UNCHANGED <<notes, now, call, result, before, version_before, sync_state, files, rounds>>

MigrateV2 ==
    /\ pc = "migrate_v2"
    /\ \E st \in {migrate_v2([user_version |-> user_version, version |-> version])} :
        /\ user_version' = st.user_version
        /\ version' = st.version
    /\ pc' = "migrate_end"
    /\ UNCHANGED <<notes, now, call, result, before, version_before, sync_state, files, rounds>>

MigrateEnd ==
    /\ pc = "migrate_end"
    /\ result' = migrate_result([user_version |-> user_version, version |-> version])
    /\ pc' = "returned"
    /\ UNCHANGED <<notes, user_version, now, call, before, version, version_before,
                   sync_state, files, rounds>>

MigrateNext == MigrateStart \/ MigrateV1 \/ MigrateV2 \/ MigrateEnd \/ Return

MigrateSpec == MigrateInit /\ [][MigrateNext]_vars

(***************************************************************************)
(* LookupSpec: one lookup of an id or of the start of an id, in any table, *)
(* either by get_note_by_id of the core or by LocalDb::get_note_by_id.     *)
(***************************************************************************)
Prefixes == {<<>>, <<"A">>, <<"B">>, <<"A", "B">>, <<"A", "C">>, <<"A", "B", "C">>}

LookupInit ==
    /\ notes \in Tables
    /\ user_version = 2
    /\ now = 0
    /\ call \in {[name |-> f, args |-> <<id>>] :
                    f \in {"get_note_by_id", "LocalDb::get_note_by_id"}, id \in Prefixes}
    /\ result = NoResult
    /\ before = notes
    /\ pc = "start"
    /\ OutsideInit

CoreLookup ==
    /\ pc = "start"
    /\ call.name = "get_note_by_id"
    /\ result' = get_note_by_id(notes, call.args[1])
    /\ pc' = "looked"
    /\ UNCHANGED <<notes, user_version, now, call, before>>
    /\ UNCHANGED outside

LocalLookup ==
    /\ pc = "start"
    /\ call.name = "LocalDb::get_note_by_id"
    /\ \E r \in local_get_note_by_id(notes, call.args[1]) : result' = r
    /\ pc' = "looked"
    /\ UNCHANGED <<notes, user_version, now, call, before>>
    /\ UNCHANGED outside

LookupNext == CoreLookup \/ LocalLookup

LookupSpec == LookupInit /\ [][LookupNext]_vars

(***************************************************************************)
(* CorruptSpec: the reads of a store one of whose rows holds a tags column *)
(* that is not the JSON text of a list of strings: cut short, not JSON at  *)
(* all, or followed by more text.  The row is active or deleted and may    *)
(* have a well-formed row before or after it.  One call is made: a lookup  *)
(* by id, a search, a get_notes_since or a merge_notes round.              *)
(***************************************************************************)
CorruptTags ==
    {<<"[", "\"", "a", "r", "t", "\"">>, <<"a", "r", "t">>, <<"[", "]", "]">>}

CorruptRows ==
    {[row_of_note(ClientNote(<<"A", "B">>, v, u)) EXCEPT !.tags = g] :
        v \in Variants, u \in 1..MaxTime, g \in CorruptTags}

SoundRows == {row_of_note(ClientNote(<<"A", "C">>, 1, u)) : u \in 1..MaxTime}

CorruptTables ==
    {<<c>> : c \in CorruptRows}
    \cup {<<c, n>> : c \in CorruptRows, n \in SoundRows}
    \cup {<<n, c>> : c \in CorruptRows, n \in SoundRows}

CorruptInit ==
    /\ notes \in CorruptTables
    /\ user_version = 2
    /\ now = 0
    /\ \/ \E id \in Ids : call = [name |-> "get_note_by_id", args |-> <<id>>]
       \/ \E q \in Queries : call = [name |-> "search_notes", args |-> <<q>>]
       \/ \E t \in Times : call = [name |-> "get_notes_since", args |-> <<t>>]
       \/ \E b \in ShortBatches, t \in Times :
             call = [name |-> "merge_notes", args |-> <<b, t>>]
    /\ result = NoResult
    /\ before = notes
    /\ pc = "start"
    /\ OutsideInit

CorruptSearch == call.name = "search_notes" /\ SearchRun

CorruptNext == CoreLookup \/ CorruptSearch \/ SyncSince \/ SyncRound

CorruptSpec == CorruptInit /\ [][CorruptNext]_vars

(***************************************************************************)
(* StateSpec: the sync_state table of a store that holds any notes.  The   *)
(* caller sets and gets keys one call at a time, through the core API or   *)
(* through the last_sync accessors of LocalDb.                             *)
(***************************************************************************)
Keys == {last_sync, <<"k">>}
Values == {<<"0">>, <<"1">>, <<"x">>}

StateInit ==
    /\ notes \in Tables
    /\ user_version = 2
    /\ now = 0
    /\ call = NoCall
    /\ result = NoResult
    /\ before = <<>>
    /\ pc = "idle"
    /\ OutsideInit

SetSyncState ==
    /\ pc = "idle"
    /\ \E key \in Keys, value \in Values :
        /\ Returns([name |-> "set_sync_state", args |-> <<key, value>>], NoResult, notes)
        /\ sync_state' = set_sync_state(sync_state, key, value)
    /\ UNCHANGED <<user_version, now, version, version_before, files, rounds>>

GetSyncState ==
    /\ pc = "idle"
    /\ \E key \in Keys :
        Returns([name |-> "get_sync_state", args |-> <<key>>],
                get_sync_state(sync_state, key), notes)
    /\ UNCHANGED <<user_version, now, version, version_before, sync_state, files, rounds>>

SetLastSync ==
    /\ pc = "idle"
    /\ \E timestamp \in Times :
        /\ Returns([name |-> "set_last_sync", args |-> <<timestamp>>], NoResult, notes)
        /\ sync_state' = set_last_sync(sync_state, timestamp)
    /\ UNCHANGED <<user_version, now, version, version_before, files, rounds>>

GetLastSync ==
    /\ pc = "idle"
    /\ Returns([name |-> "get_last_sync", args |-> <<>>], get_last_sync(sync_state), notes)
    /\ UNCHANGED <<user_version, now, version, version_before, sync_state, files, rounds>>

StateNext == SetSyncState \/ GetSyncState \/ SetLastSync \/ GetLastSync \/ Return

StateSpec == StateInit /\ [][StateNext]_vars

(***************************************************************************)
(* UsersSpec: the server with two users and one sync request of each in    *)
(* progress.  Each user's file is fresh, at the current version with one   *)
(* of a few tables, or at a version the server does not know.  The         *)
(* requests are handled concurrently: any round that is not done takes its *)
(* next statement.  before holds the files as the requests found them.     *)
(***************************************************************************)
Users == {<<"u", "1">>, <<"u", "2">>}

Paths == {user_db_path(u) : u \in Users}

UserTables ==
    {<<>>,
     <<row_of_note(ClientNote(<<"A", "B">>, 1, 1))>>,
     <<row_of_note(ClientNote(<<"A", "C">>, 1, MaxTime)),
       row_of_note(ClientNote(<<"A", "B">>, 2, MaxTime))>>}

UserFiles ==
    {FreshFile, [notes |-> <<>>, user_version |-> LatestVersion + 1]}
    \cup {[notes |-> t, user_version |-> LatestVersion] : t \in UserTables}

UserBatches ==
    {<<>>,
     <<ClientNote(<<"A", "B">>, 2, MaxTime)>>,
     <<ClientNote(<<"A", "B">>, 1, 1), ClientNote(<<"A", "C">>, 1, 1)>>,
     <<ClientNote(<<"A", "C">>, 1, MaxTime), ClientNote(<<"A", "B">>, 1, MaxTime)>>}

UserRequests == {SyncRequest(b, t) : b \in UserBatches, t \in {0, MaxTime - 1}}

UsersInit ==
    /\ files \in [Paths -> UserFiles]
    /\ rounds \in {[u \in Users |-> Round(u, q[u])] : q \in [Users -> UserRequests]}
    /\ before = files
    /\ notes = <<>>
    /\ user_version = 0
    /\ now = 0
    /\ call = NoCall
    /\ result = NoResult
    /\ pc = "serving"
    /\ version = 0
    /\ version_before = 0
    /\ sync_state = <<>>

\* The round of user u has taken a statement that left the files and the
\* round as in next.
Proceeds(u, next) ==
    /\ files' = next.files
    /\ rounds' = [rounds EXCEPT ![u] = next.round]
    /\ UNCHANGED <<notes, user_version, now, call, result, before, pc, version,
                   version_before, sync_state>>

SyncOpen ==
    \E u \in Users :
        /\ rounds[u].pc = "open"
        /\ Proceeds(u, sync_open(files, rounds[u]))

SyncStep ==
    \E u \in Users :
        /\ rounds[u].pc = "loop"
        /\ rounds[u].i <= Len(rounds[u].request.notes)
        /\ Proceeds(u, sync_step(files, rounds[u]))

SyncFinish ==
    \E u \in Users :
        /\ rounds[u].pc = "loop"
        /\ rounds[u].i > Len(rounds[u].request.notes)
        /\ Proceeds(u, sync_finish(files, rounds[u]))

UsersNext == SyncOpen \/ SyncStep \/ SyncFinish

UsersSpec == UsersInit /\ [][UsersNext]_vars

(***************************************************************************)
(* WatermarkSpec: one user, the server's file of that user, and one device *)
(* of the user with its store (notes) and its watermark (sync_state).  The *)
(* device starts with an empty store or with one note written offline, and *)
(* no watermark.  Between the rounds of the device, other devices of the   *)
(* user sync with the server: each such round brings at most one note,     *)
(* with any last_sync.                                                     *)
(***************************************************************************)
Owner == <<"u", "1">>

WatermarkInit ==
    /\ notes \in {t \in Tables : Len(t) <= 1}
    /\ sync_state = <<>>
    /\ files = [path \in {user_db_path(Owner)} |-> FreshFile]
    /\ rounds = <<>>
    /\ before = <<>>
    /\ user_version = 2
    /\ now = 0
    /\ call = NoCall
    /\ result = NoResult
    /\ pc = "idle"
    /\ version = 0
    /\ version_before = 0

ClientRound ==
    /\ pc = "idle"
    /\ \E r \in {client_round(notes, sync_state, files, Owner)} :
        /\ notes' = r.notes
        /\ sync_state' = r.sync_state
        /\ files' = r.files
        /\ result' = [ok |-> r.ok, val |-> <<>>]
    /\ call' = [name |-> "sync", args |-> <<>>]
    /\ pc' = "synced"
    /\ UNCHANGED <<user_version, now, before, version, version_before, rounds>>

ClientResume ==
    /\ pc = "synced"
    /\ pc' = "idle"
    /\ call' = NoCall
    /\ result' = NoResult
    /\ UNCHANGED <<notes, user_version, now, before, version, version_before,
                   sync_state, files, rounds>>

OtherRound ==
    /\ pc = "idle"
    /\ \E b \in ShortBatches, t \in Times :
        files' = perform_sync(files, Owner, SyncRequest(b, t)).files
    /\ UNCHANGED <<notes, user_version, now, call, result, before, pc, version,
                   version_before, sync_state, rounds>>

WatermarkNext == ClientRound \/ ClientResume \/ OtherRound

WatermarkSpec == WatermarkInit /\ [][WatermarkNext]_vars

(***************************************************************************)
(* RetrySpec: a merge_notes round, on any table and with any request, that *)
(* fails on a storage error after the passes of its loop for the first     *)
(* notes of the batch (none, some or all of them), and the same round run  *)
(* again on the table the failure left.  The writes of the passes that     *)
(* completed stay (the function opens no transaction).  before is the      *)
(* table the first attempt found, rounds the attempts made so far with the *)
(* number of passes each completed.  The watermark of the request is 0:    *)
(* it plays no part in what the round writes.                              *)
(***************************************************************************)
RetryInit ==
    /\ notes \in Tables
    /\ \E b \in Batches : call = [name |-> "merge_notes", args |-> <<b, 0>>]
    /\ result = NoResult
    /\ before = notes
    /\ pc = "start"
    /\ rounds = <<>>
    /\ files = <<>>
    /\ user_version = 2
    /\ now = 0
    /\ version = 0
    /\ version_before = 0
    /\ sync_state = <<>>

RoundFails ==
    /\ pc = "start"
    /\ \E k \in 0..Len(call.args[1]) :
        \E st \in {merge_loop([ok |-> TRUE, tbl |-> notes, notes_to_send |-> <<>>,
                               client_note_ids |-> <<>>], SubSeq(call.args[1], 1, k))} :
        /\ notes' = st.tbl
        /\ rounds' = Append(rounds, [passes |-> k, ok |-> FALSE])
    /\ result' = Err
    /\ pc' = "failed"
    /\ UNCHANGED <<user_version, now, call, before, version, version_before, sync_state,
                   files>>

RoundRetry ==
    /\ pc = "failed"
    /\ \E r \in {merge_notes(notes, call.args[1], call.args[2])} :
        /\ notes' = r.tbl
        /\ result' = [ok |-> r.ok, val |-> r.val]
        /\ rounds' = Append(rounds, [passes |-> Len(call.args[1]), ok |-> r.ok])
    /\ pc' = "retried"
    /\ UNCHANGED <<user_version, now, call, before, version, version_before, sync_state,
                   files>>

RetryNext == RoundFails \/ RoundRetry

RetrySpec == RetryInit /\ [][RetryNext]_vars

(***************************************************************************)
(* cli/src/commands/note.rs: note_cmd, the Delete arm.  Without ids the    *)
(* command takes the id of the first note of a search with limit 1; with   *)
(* --yes it soft-deletes each id in turn; without it, it looks each id up  *)
(* by LocalDb::get_note_by_id, stops with an error when the lookup finds   *)
(* nothing, reads a line of input and soft-deletes the id as given when    *)
(* the trimmed line is "y" in either case.  Each operator has one outcome  *)
(* per outcome of the searches it makes; an outcome is the Result and the  *)
(* table left behind.                                                      *)
(***************************************************************************)
Whitespace == {" ", "\n", "\t", "\r"}

RECURSIVE trim_start(_)
trim_start(s) ==
    IF s # <<>> /\ Head(s) \in Whitespace THEN trim_start(Tail(s)) ELSE s

RECURSIVE trim_end(_)
trim_end(s) ==
    IF s # <<>> /\ s[Len(s)] \in Whitespace THEN trim_end(SubSeq(s, 1, Len(s) - 1)) ELSE s

trim(s) == trim_end(trim_start(s))

\* input.trim().eq_ignore_ascii_case("y")
answered_yes(input) == trim(input) \in {<<"y">>, <<"Y">>}

Failure(tbl, val) == [ok |-> FALSE, val |-> val, tbl |-> tbl]

ids_to_deleteOldest(tbl, ids) ==
    IF ids # <<>> THEN {[ok |-> TRUE, val |-> ids, tbl |-> tbl]}
    ELSE {IF ~found.ok THEN Failure(tbl, <<>>)
          ELSE IF found.val = <<>> THEN Failure(tbl, <<"No notes found to delete">>)
          ELSE [ok |-> TRUE, val |-> <<found.val[Len(found.val)].id>>, tbl |-> tbl] :
             found \in search_notes(tbl, SearchQuery(None, <<>>, None, None, FALSE, None))}

ids_to_delete(tbl, ids) ==
    IF ids # <<>> THEN {[ok |-> TRUE, val |-> ids, tbl |-> tbl]}
    ELSE {IF ~found.ok THEN Failure(tbl, <<>>)
          ELSE IF found.val = <<>> THEN Failure(tbl, <<"No notes found to delete">>)
          ELSE [ok |-> TRUE, val |-> <<found.val[1].id>>, tbl |-> tbl] :
             found \in search_notes(tbl, SearchQuery(None, <<>>, None, None, FALSE, Some(1)))}

RECURSIVE delete_confirmed(_, _, _, _)
delete_confirmed(tbl, ids, inputs, t) ==
    IF ids = <<>> THEN {[ok |-> TRUE, val |-> <<>>, tbl |-> tbl]}
    ELSE UNION {IF ~note.ok THEN {Failure(tbl, note.val)}
                ELSE IF note.val = None
                     THEN {Failure(tbl, <<"Note with ID not found", Head(ids)>>)}
                ELSE IF ~answered_yes(Head(inputs))
                     THEN delete_confirmed(tbl, Tail(ids), Tail(inputs), t)
                ELSE delete_confirmed(soft_delete_note(tbl, Head(ids), t),
                                      Tail(ids), Tail(inputs), t) :
                   note \in local_get_note_by_id(tbl, Head(ids))}

RECURSIVE delete_all(_, _, _)
delete_all(tbl, ids, t) ==
    IF ids = <<>> THEN [ok |-> TRUE, val |-> <<>>, tbl |-> tbl]
    ELSE delete_all(soft_delete_note(tbl, Head(ids), t), Tail(ids), t)

note_delete(tbl, ids, yes, inputs, t) ==
    UNION {IF ~chosen.ok THEN {chosen}
           ELSE IF yes THEN {delete_all(tbl, chosen.val, t)}
           ELSE delete_confirmed(tbl, chosen.val, inputs, t) :
              chosen \in ids_to_delete(tbl, ids)}

(***************************************************************************)
(* DeleteSpec: one run of the delete command on any table, with no id, one *)
(* id or two, an id being the id of a note, the start of one or neither,   *)
(* with or without --yes, and with any line typed at each prompt.  The     *)
(* clock reads a time later than every timestamp of the table.             *)
(***************************************************************************)
DeleteIds == {<<"A", "B">>, <<"A", "C">>, <<"A">>, <<"B">>}
Inputs == {<<"y", "\n">>, <<" ", "Y", "\n">>, <<"n", "\n">>, <<"\n">>}
MaxIds == 2

DeleteInit ==
    /\ notes \in Tables
    /\ user_version = 2
    /\ now = MaxTime + 1
    /\ \E n \in 0..MaxIds : \E ids \in [1..n -> DeleteIds], yes \in BOOLEAN :
          \E inputs \in IF yes THEN {<<>>} ELSE [1..(IF n = 0 THEN 1 ELSE n) -> Inputs] :
             call = [name |-> "note delete", args |-> <<ids, yes, inputs>>]
    /\ result = NoResult
    /\ before = notes
    /\ pc = "start"
    /\ OutsideInit

NoteDelete ==
    /\ pc = "start"
    /\ call.name = "note delete"
    /\ \E r \in note_delete(notes, call.args[1], call.args[2], call.args[3], now) :
          /\ notes' = r.tbl
          /\ result' = [ok |-> r.ok, val |-> r.val]
    /\ pc' = "deleted"
    /\ UNCHANGED <<user_version, now, call, before>>
    /\ UNCHANGED outside

DeleteNext == NoteDelete

DeleteSpec == DeleteInit /\ [][DeleteNext]_vars

(***************************************************************************)
(* RaceSpec: two calls on one user's store, each through a connection of   *)
(* its own (perform_sync opens one per request), both submitting a copy of *)
(* the same id.  A call is upsert_note, or a merge_notes round whose batch *)
(* is that one note.  Neither function opens a transaction, so each of its *)
(* SQL statements commits on its own and the statements of the two calls   *)
(* interleave in any order; a statement is atomic.  A connection holds     *)
(* what its call has read so far:                                          *)
(*   merge_select   sync.rs:19     get_note_by_id and the match on it      *)
(*   upsert_select  db.rs:215      get_note_by_id inside upsert_note       *)
(*   upsert_write   db.rs:216-228  the UPDATE or INSERT chosen from the    *)
(*                                 row read before; INSERT fails on an id  *)
(*                                 that has a row (id is the PRIMARY KEY)  *)
(*   merge_since    sync.rs:40-49  get_notes_since and the second loop     *)
(***************************************************************************)
Contended == <<"A", "B">>

Connection(name, note) ==
    [name |-> name, note |-> note, last_sync |-> 0,
     pc |-> IF name = "merge_notes" THEN "merge_select" ELSE "upsert_select",
     existing |-> None, notes_to_send |-> <<>>, result |-> NoResult]

Failed(c) == [c EXCEPT !.pc = "done", !.result = Err]

merge_select(tbl, c) ==
    bind(get_note_by_id(tbl, c.note.id), LAMBDA server_note :
    IF ~server_note.ok THEN Failed(c)
    ELSE IF server_note.val = None THEN [c EXCEPT !.pc = "upsert_select"]
    ELSE IF c.note.updated_at > server_note.val[1].updated_at
         THEN [c EXCEPT !.pc = "upsert_select"]
    ELSE IF server_note.val[1].updated_at > c.note.updated_at
         THEN [c EXCEPT !.pc = "merge_since",
                        !.notes_to_send = Append(@, server_note.val[1])]
    ELSE [c EXCEPT !.pc = "merge_since"])

upsert_select(tbl, c) ==
    bind(get_note_by_id(tbl, c.note.id), LAMBDA existing :
    IF ~existing.ok THEN Failed(c)
    ELSE [c EXCEPT !.pc = "upsert_write", !.existing = existing.val])

upsert_returns(c) ==
    IF c.name = "merge_notes" THEN [c EXCEPT !.pc = "merge_since"]
    ELSE [c EXCEPT !.pc = "done", !.result = Ok(<<>>)]

upsert_write(tbl, c) ==
    IF c.existing # None THEN
        IF c.note.updated_at > c.existing[1].updated_at
        THEN [tbl |-> [i \in 1..Len(tbl) |->
                          IF tbl[i].id = c.note.id THEN row_of_note(c.note) ELSE tbl[i]],
              conn |-> upsert_returns(c)]
        ELSE [tbl |-> tbl, conn |-> upsert_returns(c)]
    ELSE IF c.note.id \in NoteIds(tbl) THEN [tbl |-> tbl, conn |-> Failed(c)]
    ELSE [tbl |-> Append(tbl, row_of_note(c.note)), conn |-> upsert_returns(c)]

merge_since(tbl, c) ==
    bind(get_notes_since(tbl, c.last_sync), LAMBDA server_new_notes :
    IF ~server_new_notes.ok THEN Failed(c)
    ELSE [c EXCEPT !.pc = "done",
                   !.result = Ok(merge_filter(server_new_notes.val, c.notes_to_send,
                                              <<c.note.id>>))])

\* The tables of a store, and a store whose copy of the contended id is
\* older than every copy submitted.
RaceTables == Tables \cup {<<row_of_note(ClientNote(Contended, 1, 0))>>}

RaceInit ==
    /\ notes \in RaceTables
    /\ rounds \in [1..2 -> {Connection(f, n) : f \in {"upsert_note", "merge_notes"},
                                              n \in {c \in ClientNotes : c.id = Contended}}]
    /\ before = notes
    /\ user_version = 2
    /\ now = 0
    /\ call = NoCall
    /\ result = NoResult
    /\ pc = "running"
    /\ version = 0
    /\ version_before = 0
    /\ sync_state = <<>>
    /\ files = <<>>

RaceFrame == UNCHANGED <<user_version, now, call, result, before, pc, version,
                         version_before, sync_state, files>>

MergeSelect ==
    \E k \in 1..2 :
        /\ rounds[k].pc = "merge_select"
        /\ rounds' = [rounds EXCEPT ![k] = merge_select(notes, rounds[k])]
        /\ UNCHANGED notes
        /\ RaceFrame

UpsertSelect ==
    \E k \in 1..2 :
        /\ rounds[k].pc = "upsert_select"
        /\ rounds' = [rounds EXCEPT ![k] = upsert_select(notes, rounds[k])]
        /\ UNCHANGED notes
        /\ RaceFrame

UpsertWrite ==
    \E k \in 1..2 :
        /\ rounds[k].pc = "upsert_write"
        /\ notes' = upsert_write(notes, rounds[k]).tbl
        /\ rounds' = [rounds EXCEPT ![k] = upsert_write(notes, rounds[k]).conn]
        /\ RaceFrame

MergeSince ==
    \E k \in 1..2 :
        /\ rounds[k].pc = "merge_since"
        /\ rounds' = [rounds EXCEPT ![k] = merge_since(notes, rounds[k])]
        /\ UNCHANGED notes
        /\ RaceFrame

RaceNext == MergeSelect \/ UpsertSelect \/ UpsertWrite \/ MergeSince

RaceSpec == RaceInit /\ [][RaceNext]_vars

(***************************************************************************)
(* RepeatSpec: one merge_notes round whose batch holds copies of one id,   *)
(* the same id more than once included, on any table and with any          *)
(* watermark.  The copies carry any updated_at from 0, so that a batch can *)
(* hold a copy older and a copy newer than the one the server has.         *)
(***************************************************************************)
RepeatNotes == {ClientNote(Contended, v, u) : v \in Variants, u \in 0..MaxTime}

RepeatBatches == UNION {[1..n -> RepeatNotes] : n \in 0..MaxBatch}

RepeatInit ==
    /\ notes \in Tables
    /\ user_version = 2
    /\ now = 0
    /\ \E b \in RepeatBatches, t \in Times :
          call = [name |-> "merge_notes", args |-> <<b, t>>]
    /\ result = NoResult
    /\ before = notes
    /\ pc = "start"
    /\ OutsideInit

RepeatNext == SyncRound

RepeatSpec == RepeatInit /\ [][RepeatNext]_vars

(***************************************************************************)
(* ReadSpec: the four reads of the core on a store that holds notes, sound *)
(* or with a row whose tags do not decode, and sync_state entries.  Each   *)
(* read prepares one SELECT statement and runs it (db.rs:43, 126, 176,     *)
(* 235); select is that statement as the database sees it: rows go out and  *)
(* the database stays as it is, whether or not decoding the rows succeeds. *)
(***************************************************************************)
selectConsumes(db, rows) == [db |-> [db EXCEPT !.notes = <<>>], result |-> rows]

select(db, rows) == [db |-> db, result |-> rows]

Db == [notes |-> notes, sync_state |-> sync_state, user_version |-> user_version]

StateTables ==
    {<<>>,
     set_sync_state(<<>>, last_sync, <<"1">>),
     set_sync_state(set_sync_state(<<>>, <<"k">>, <<"x">>), last_sync, <<"0">>)}

ReadInit ==
    /\ notes \in Tables \cup CorruptTables
    /\ sync_state \in StateTables
    /\ user_version = 2
    /\ now = 0
    /\ call = NoCall
    /\ result = NoResult
    /\ before = <<>>
    /\ pc = "idle"
    /\ version = 0
    /\ version_before = 0
    /\ files = <<>>
    /\ rounds = <<>>

\* The idle caller has made the read c, whose statement went as in q.
Reads(c, q) ==
    /\ Returns(c, q.result, q.db.notes)
    /\ sync_state' = q.db.sync_state
    /\ user_version' = q.db.user_version
    /\ UNCHANGED <<now, version, version_before, files, rounds>>

ReadById ==
    /\ pc = "idle"
    /\ \E id \in Ids :
          Reads([name |-> "get_note_by_id", args |-> <<id>>],
                select(Db, get_note_by_id(notes, id)))

ReadSearch ==
    /\ pc = "idle"
    /\ \E q \in Queries : \E r \in search_notes(notes, q) :
          Reads([name |-> "search_notes", args |-> <<q>>], select(Db, r))

ReadSince ==
    /\ pc = "idle"
    /\ \E t \in Times :
          Reads([name |-> "get_notes_since", args |-> <<t>>],
                select(Db, get_notes_since(notes, t)))

ReadState ==
    /\ pc = "idle"
    /\ \E key \in Keys :
          Reads([name |-> "get_sync_state", args |-> <<key>>],
                select(Db, get_sync_state(sync_state, key)))

ReadNext == ReadById \/ ReadSearch \/ ReadSince \/ ReadState \/ Return

ReadSpec == ReadInit /\ [][ReadNext]_vars

(***************************************************************************)
(* schema.rs: SCHEMA_V1 and MIGRATION_V1_TO_V2 statement by statement, and *)
(* migrate running them with Connection::execute_batch.  execute_batch     *)
(* runs the statements of a batch one after the other and stops at the     *)
(* first that fails; neither batch opens a transaction, so the statements  *)
(* before the failure stay committed.  A database is the tables and        *)
(* indexes it holds, the name of the column of notes that holds the date   *)
(* ("none" without the table), user_version and the rows of its two tables.   *)
(* CREATE ... IF NOT EXISTS leaves a table that exists as it is, and       *)
(* RENAME COLUMN keeps the rows and their values.  A statement fails by    *)
(* itself (exec) or because of its environment (disk, lock, a killed       *)
(* process): budget is the number of statements the environment lets run.  *)
(***************************************************************************)
CreateTable(name) == [op |-> "CREATE TABLE IF NOT EXISTS", name |-> name]
CreateIndex(name, column) ==
    [op |-> "CREATE INDEX IF NOT EXISTS", name |-> name, column |-> column]
RenameColumn(from, to) == [op |-> "ALTER TABLE notes RENAME COLUMN", from |-> from, to |-> to]
DropIndex(name) == [op |-> "DROP INDEX IF EXISTS", name |-> name]
PragmaUserVersion(v) == [op |-> "PRAGMA user_version", version |-> v]

SCHEMA_V1 ==
    <<CreateTable("notes"),
      CreateIndex("idx_updated_at", "updated_at"),
      CreateIndex("idx_deleted_at", "deleted_at"),
      CreateIndex("idx_date", "date"),
      CreateTable("sync_state"),
      PragmaUserVersion(1)>>

MIGRATION_V1_TO_V2 ==
    <<RenameColumn("date", "subject_date"),
      DropIndex("idx_date"),
      CreateIndex("idx_subject_date", "subject_date"),
      CreateIndex("idx_created_at", "created_at"),
      PragmaUserVersion(2)>>

\* The columns of notes in db.
has_column(db, column) ==
    /\ "notes" \in db.tables
    /\ column \in {"date", "subject_date"} => column = db.date_column

execAddsColumn(db, stmt) ==
    IF stmt.op = "CREATE TABLE IF NOT EXISTS" THEN
        IF stmt.name \in db.tables THEN [ok |-> TRUE, db |-> db]
        ELSE [ok |-> TRUE,
              db |-> [db EXCEPT !.tables = @ \cup {stmt.name},
                                !.date_column = IF stmt.name = "notes" THEN "date" ELSE @]]
    ELSE IF stmt.op = "CREATE INDEX IF NOT EXISTS" THEN
        IF stmt.name \in db.indexes THEN [ok |-> TRUE, db |-> db]
        ELSE IF ~has_column(db, stmt.column) THEN [ok |-> FALSE, db |-> db]
        ELSE [ok |-> TRUE, db |-> [db EXCEPT !.indexes = @ \cup {stmt.name}]]
    ELSE IF stmt.op = "ALTER TABLE notes RENAME COLUMN" THEN
        IF ~has_column(db, stmt.from) THEN [ok |-> FALSE, db |-> db]
        ELSE [ok |-> TRUE,
              db |-> [db EXCEPT !.date_column = stmt.to,
                                !.notes = [i \in 1..Len(@) |-> [@[i] EXCEPT !.date = None]]]]
    ELSE IF stmt.op = "DROP INDEX IF EXISTS" THEN
        [ok |-> TRUE, db |-> [db EXCEPT !.indexes = @ \ {stmt.name}]]
    ELSE [ok |-> TRUE, db |-> [db EXCEPT !.user_version = stmt.version]]

exec(db, stmt) ==
    IF stmt.op = "CREATE TABLE IF NOT EXISTS" THEN
        IF stmt.name \in db.tables THEN [ok |-> TRUE, db |-> db]
        ELSE [ok |-> TRUE,
              db |-> [db EXCEPT !.tables = @ \cup {stmt.name},
                                !.date_column = IF stmt.name = "notes" THEN "date" ELSE @]]
    ELSE IF stmt.op = "CREATE INDEX IF NOT EXISTS" THEN
        IF stmt.name \in db.indexes THEN [ok |-> TRUE, db |-> db]
        ELSE IF ~has_column(db, stmt.column) THEN [ok |-> FALSE, db |-> db]
        ELSE [ok |-> TRUE, db |-> [db EXCEPT !.indexes = @ \cup {stmt.name}]]
    ELSE IF stmt.op = "ALTER TABLE notes RENAME COLUMN" THEN
        IF ~has_column(db, stmt.from) THEN [ok |-> FALSE, db |-> db]
        ELSE [ok |-> TRUE, db |-> [db EXCEPT !.date_column = stmt.to]]
    ELSE IF stmt.op = "DROP INDEX IF EXISTS" THEN
        [ok |-> TRUE, db |-> [db EXCEPT !.indexes = @ \ {stmt.name}]]
    ELSE [ok |-> TRUE, db |-> [db EXCEPT !.user_version = stmt.version]]

RECURSIVE execute_batch(_, _, _)
execute_batch(db, batch, budget) ==
    IF batch = <<>> THEN [ok |-> TRUE, db |-> db, budget |-> budget]
    ELSE IF budget = 0 THEN [ok |-> FALSE, db |-> db, budget |-> 0]
    ELSE bind(exec(db, Head(batch)), LAMBDA r :
         IF ~r.ok THEN [ok |-> FALSE, db |-> db, budget |-> budget]
         ELSE execute_batch(r.db, Tail(batch), budget - 1))

\* migrate, with the local variable version spelled out.
migrate_from_1(db, local_version, budget) ==
    IF local_version = 1
    THEN bind(execute_batch(db, MIGRATION_V1_TO_V2, budget), LAMBDA r :
         [ok |-> r.ok, db |-> r.db])
    ELSE [ok |-> local_version = 2, db |-> db]

migrate_batches(db, budget) ==
    IF db.user_version = 0
    THEN bind(execute_batch(db, SCHEMA_V1, budget), LAMBDA r :
         IF ~r.ok THEN [ok |-> FALSE, db |-> r.db]
         ELSE migrate_from_1(r.db, 1, r.budget))
    ELSE migrate_from_1(db, db.user_version, budget)

(***************************************************************************)
(* ResumeSpec: migrate, again and again, on a store that starts as a fresh *)
(* file or as a store an earlier release left at version 1 with any notes. *)
(* Each call runs to its end or is cut short by its environment after any  *)
(* number of statements.  The variable files holds the tables, indexes and *)
(* date column of the store; its rows are in notes.                        *)
(***************************************************************************)
Unfailing == Len(SCHEMA_V1) + Len(MIGRATION_V1_TO_V2)

SchemaAt(v) ==
    IF v = 0 THEN [tables |-> {}, indexes |-> {}, date_column |-> "none"]
    ELSE IF v = 1
    THEN [tables |-> {"notes", "sync_state"},
          indexes |-> {"idx_updated_at", "idx_deleted_at", "idx_date"},
          date_column |-> "date"]
    ELSE [tables |-> {"notes", "sync_state"},
          indexes |-> {"idx_updated_at", "idx_deleted_at", "idx_subject_date",
                       "idx_created_at"},
          date_column |-> "subject_date"]

StoreDb ==
    [tables |-> files.tables, indexes |-> files.indexes,
     date_column |-> files.date_column, user_version |-> user_version,
     notes |-> notes, sync_state |-> sync_state]

\* The store is left as the database db.
Stored(db) ==
    /\ files' = [tables |-> db.tables, indexes |-> db.indexes,
                 date_column |-> db.date_column]
    /\ user_version' = db.user_version
    /\ sync_state' = db.sync_state

ResumeInit ==
    /\ user_version \in {0, 1}
    /\ files = SchemaAt(user_version)
    /\ notes \in IF user_version = 0 THEN {<<>>} ELSE Tables
    /\ now = 0
    /\ call = NoCall
    /\ result = NoResult
    /\ before = <<>>
    /\ pc = "idle"
    /\ version = 0
    /\ version_before = 0
    /\ sync_state = <<>>
    /\ rounds = <<>>

Migrate ==
    /\ pc = "idle"
    /\ \E budget \in 0..Unfailing :
          \E r \in {migrate_batches(StoreDb, budget)} :
             /\ Stored(r.db)
             /\ Returns([name |-> "migrate", args |-> <<budget>>],
                        [ok |-> r.ok, val |-> <<>>], r.db.notes)
    /\ UNCHANGED <<now, version, version_before, rounds>>

MigrateReturn ==
    /\ pc = "returned"
    /\ pc' = "idle"
    /\ call' = NoCall
    /\ result' = NoResult
    /\ before' = <<>>
    /\ UNCHANGED <<notes, user_version, now, version, version_before, sync_state,
                   files, rounds>>

ResumeNext == Migrate \/ MigrateReturn

ResumeSpec == ResumeInit /\ [][ResumeNext]_vars

(***************************************************************************)
(* OpenSpec: open_db, again and again, on a store found at any version     *)
(* with the schema of that version (of the latest, for a version the code  *)
(* does not know), any notes and any sync_state entries; a store at        *)
(* version 0 is a fresh file.  Connection::open changes nothing in the     *)
(* file and migrate runs to its end.  version_before keeps the version the *)
(* call found.                                                             *)
(***************************************************************************)
OpenInit ==
    /\ user_version \in 0..MaxVersion
    /\ files = SchemaAt(user_version)
    /\ notes \in IF user_version = 0 THEN {<<>>} ELSE Tables
    /\ sync_state \in IF user_version = 0 THEN {<<>>} ELSE StateTables
    /\ now = 0
    /\ call = NoCall
    /\ result = NoResult
    /\ before = <<>>
    /\ pc = "idle"
    /\ version = 0
    /\ version_before = 0
    /\ rounds = <<>>

OpenStore ==
    /\ pc = "idle"
    /\ \E r \in {migrate_batches(StoreDb, Unfailing)} :
          /\ Stored(r.db)
          /\ Returns([name |-> "open_db", args |-> <<>>],
                     [ok |-> r.ok, val |-> <<>>], r.db.notes)
    /\ version_before' = user_version
    /\ UNCHANGED <<now, version, rounds>>

OpenNext == OpenStore \/ MigrateReturn

OpenSpec == OpenInit /\ [][OpenNext]_vars

(***************************************************************************)
(* server/src/db/auth.rs: the device-login challenges, rows of device_auth *)
(* (device_code TEXT PRIMARY KEY, user_code UNIQUE NOT NULL, user_id,      *)
(* expires_at, created_at; server/src/db/mod.rs).  Times are seconds.      *)
(* Nothing deletes a row when it expires: expiry is the comparison in the  *)
(* SELECT of get_token_from_device_challenge.                              *)
(***************************************************************************)
Lifetime == 600

Success(user_id) == <<"Success", user_id>>
NoChallenge == <<"NoChallenge">>
Pending == <<"Pending">>

rows_with_code(tbl, device_code) == {i \in 1..Len(tbl) : tbl[i].device_code = device_code}

create_device_challenge(tbl, device_code, user_code, t) ==
    IF \E i \in 1..Len(tbl) : tbl[i].device_code = device_code \/ tbl[i].user_code = user_code
    THEN [ok |-> FALSE, val |-> <<>>, tbl |-> tbl]
    ELSE [ok |-> TRUE, val |-> <<>>,
          tbl |-> Append(tbl, [device_code |-> device_code, user_code |-> user_code,
                               user_id |-> None, expires_at |-> t + 600,
                               created_at |-> t])]

add_token_to_device_challenge(tbl, device_code, user_id) ==
    [ok |-> TRUE, val |-> rows_with_code(tbl, device_code) # {},
     tbl |-> [i \in 1..Len(tbl) |->
                 IF tbl[i].device_code = device_code
                 THEN [tbl[i] EXCEPT !.user_id = Some(user_id)]
                 ELSE tbl[i]]]

delete_device_challenge(tbl, device_code) ==
    [ok |-> TRUE, val |-> rows_with_code(tbl, device_code) # {},
     tbl |-> SelectSeq(tbl, LAMBDA row : row.device_code # device_code)]

get_token_from_device_challengeInclusive(tbl, device_code, current_time) ==
    bind({i \in rows_with_code(tbl, device_code) : tbl[i].expires_at >= current_time},
         LAMBDA hits :
    IF hits = {} THEN Ok(NoChallenge)
    ELSE IF tbl[Min(hits)].user_id = None THEN Ok(Pending)
    ELSE Ok(Success(tbl[Min(hits)].user_id[1])))

get_token_from_device_challenge(tbl, device_code, current_time) ==
    bind({i \in rows_with_code(tbl, device_code) : tbl[i].expires_at > current_time},
         LAMBDA hits :
    IF hits = {} THEN Ok(NoChallenge)
    ELSE IF tbl[Min(hits)].user_id = None THEN Ok(Pending)
    ELSE Ok(Success(tbl[Min(hits)].user_id[1])))

(***************************************************************************)
(* AuthSpec: the auth database of a server.  Challenges are created,       *)
(* given a user, deleted and polled in any order while the clock moves     *)
(* forward by half a lifetime or a whole one, so that a poll can fall      *)
(* before, exactly at and after an expiry.  The variable files holds the   *)
(* device_auth table.  The users attached are rows of users.               *)
(***************************************************************************)
DeviceCodes == {<<"d", "1">>, <<"d", "2">>}
UserCodes == {<<"A">>, <<"B">>}
Jumps == {300, 600}
Horizon == 1200

DeviceAuth == files.device_auth

AuthInit ==
    /\ files = [device_auth |-> <<>>]
    /\ now = 0
    /\ call = NoCall
    /\ result = NoResult
    /\ pc = "idle"
    /\ notes = <<>>
    /\ before = <<>>
    /\ user_version = 1
    /\ version = 0
    /\ version_before = 0
    /\ sync_state = <<>>
    /\ rounds = <<>>

AuthFrame == UNCHANGED <<notes, before, user_version, version, version_before,
                         sync_state, rounds>>

\* The idle caller has made the call c, which returned r.
Answers(c, r) ==
    /\ pc' = "returned"
    /\ call' = c
    /\ result' = [ok |-> r.ok, val |-> r.val]
    /\ UNCHANGED now
    /\ AuthFrame

CreateChallenge ==
    /\ pc = "idle"
    /\ \E device_code \in DeviceCodes, user_code \in UserCodes :
          \E r \in {create_device_challenge(DeviceAuth, device_code, user_code, now)} :
             /\ files' = [device_auth |-> r.tbl]
             /\ Answers([name |-> "create_device_challenge",
                         args |-> <<device_code, user_code>>], r)

AddToken ==
    /\ pc = "idle"
    /\ \E device_code \in DeviceCodes, user_id \in Users :
          \E r \in {add_token_to_device_challenge(DeviceAuth, device_code, user_id)} :
             /\ files' = [device_auth |-> r.tbl]
             /\ Answers([name |-> "add_token_to_device_challenge",
                         args |-> <<device_code, user_id>>], r)

DeleteChallenge ==
    /\ pc = "idle"
    /\ \E device_code \in DeviceCodes :
          \E r \in {delete_device_challenge(DeviceAuth, device_code)} :
             /\ files' = [device_auth |-> r.tbl]
             /\ Answers([name |-> "delete_device_challenge", args |-> <<device_code>>], r)

GetToken ==
    /\ pc = "idle"
    /\ \E device_code \in DeviceCodes :
          /\ Answers([name |-> "get_token_from_device_challenge",
                      args |-> <<device_code>>],
                     get_token_from_device_challenge(DeviceAuth, device_code, now))
          /\ UNCHANGED files

AuthReturn ==
    /\ pc = "returned"
    /\ pc' = "idle"
    /\ call' = NoCall
    /\ result' = NoResult
    /\ UNCHANGED <<files, now>>
    /\ AuthFrame

ClockAdvances ==
    /\ pc = "idle"
    /\ \E d \in Jumps : now + d <= Horizon /\ now' = now + d
    /\ UNCHANGED <<files, call, result, pc>>
    /\ AuthFrame

AuthNext ==
    CreateChallenge \/ AddToken \/ DeleteChallenge \/ GetToken \/ AuthReturn \/ ClockAdvances

AuthSpec == AuthInit /\ [][AuthNext]_vars

(***************************************************************************)
(* cli/src/prune.rs: generate_prune_file and parse_prune_file.  The file   *)
(* is text: the header, then one line per note, "keep", the id, the date   *)
(* in brackets, the tags each after " #", and the first line of the        *)
(* content cut at 80 characters.  lines, trim and split_whitespace are the *)
(* methods of str: lines splits at "\n" and drops the "\r" before it, and  *)
(* the other two take blanks, tabs and line ends for whitespace.           *)
(***************************************************************************)
HeaderLines ==
    <<
      <<"#", " ", "I", "n", "t", "e", "r", "a", "c", "t", "i", "v", "e",
        " ", "n", "o", "t", "e", " ", "c", "l", "e", "a", "n", "u", "p",
        "\n">>,
      <<"#", " ", "\n">>,
      <<"#", " ", "C", "o", "m", "m", "a", "n", "d", "s", ":", "\n">>,
      <<"#", " ", " ", " ", "k", "e", "e", "p", " ", " ", " ", "-", " ",
        "k", "e", "e", "p", " ", "t", "h", "i", "s", " ", "n", "o", "t",
        "e", " ", "(", "d", "e", "f", "a", "u", "l", "t", ")", "\n">>,
      <<"#", " ", " ", " ", "d", "e", "l", "e", "t", "e", " ", "-", " ",
        "p", "e", "r", "m", "a", "n", "e", "n", "t", "l", "y", " ", "d",
        "e", "l", "e", "t", "e", " ", "t", "h", "i", "s", " ", "n", "o",
        "t", "e", "\n">>,
      <<"#", "\n">>,
      <<"#", " ", "L", "i", "n", "e", "s", " ", "s", "t", "a", "r", "t",
        "i", "n", "g", " ", "w", "i", "t", "h", " ", "'", "#", "'", " ",
        "a", "r", "e", " ", "i", "g", "n", "o", "r", "e", "d", ".", "\n">>,
      <<"#", " ", "E", "d", "i", "t", " ", "t", "h", "e", " ", "c", "o",
        "m", "m", "a", "n", "d", " ", "w", "o", "r", "d", " ", "(", "k",
        "e", "e", "p", "/", "d", "e", "l", "e", "t", "e", ")", " ", "o",
        "n", " ", "e", "a", "c", "h", " ", "l", "i", "n", "e", ".", "\n">>,
      <<"\n">>
    >>

RECURSIVE concat(_)
concat(strings) ==
    IF strings = <<>> THEN <<>> ELSE Head(strings) \o concat(Tail(strings))

\* The position of the first "\n" of s, or Len(s) + 1.
line_end(s) ==
    IF \E i \in 1..Len(s) : s[i] = "\n"
    THEN Min({i \in 1..Len(s) : s[i] = "\n"})
    ELSE Len(s) + 1

without_cr(line) ==
    IF line # <<>> /\ line[Len(line)] = "\r" THEN SubSeq(line, 1, Len(line) - 1) ELSE line

RECURSIVE lines(_)
lines(s) ==
    IF s = <<>> THEN <<>>
    ELSE IF line_end(s) > Len(s) THEN <<s>>
    ELSE <<without_cr(SubSeq(s, 1, line_end(s) - 1))>>
         \o lines(SubSeq(s, line_end(s) + 1, Len(s)))

\* The length of the first word of s, which starts with no whitespace.
word_end(s) ==
    IF \E i \in 1..Len(s) : s[i] \in Whitespace
    THEN Min({i \in 1..Len(s) : s[i] \in Whitespace}) - 1
    ELSE Len(s)

RECURSIVE split_whitespace(_)
split_whitespace(s) ==
    IF trim_start(s) = <<>> THEN <<>>
    ELSE bind(trim_start(s), LAMBDA t :
         <<SubSeq(t, 1, word_end(t))>>
         \o split_whitespace(SubSeq(t, word_end(t) + 1, Len(t))))

date_str(note) ==
    IF note.date = None THEN <<>> ELSE <<"[">> \o note.date[1] \o <<"]">>

tags_str(note) ==
    concat([k \in 1..Len(note.tags) |-> <<" ", "#">> \o note.tags[k]])

preview(note) ==
    bind(IF lines(note.content) = <<>> THEN <<>> ELSE lines(note.content)[1],
         LAMBDA first : IF Len(first) > 80 THEN SubSeq(first, 1, 80) ELSE first)

preview_suffix(note) ==
    IF Len(lines(note.content)) > 1 \/ Len(preview(note)) >= 80
    THEN <<".", ".", ".">> ELSE <<>>

note_line(note) ==
    <<"k", "e", "e", "p", " ">> \o note.id \o <<" ">> \o date_str(note) \o tags_str(note)
        \o <<" ">> \o preview(note) \o preview_suffix(note) \o <<"\n">>

generate_prune_file(prune_notes) ==
    concat(HeaderLines) \o concat([k \in 1..Len(prune_notes) |-> note_line(prune_notes[k])])

Decision(note_id, action) == [note_id |-> note_id, action |-> action]

InvalidFormat(line_num) == [ok |-> FALSE, val |-> <<"Invalid format", line_num>>]
InvalidAction(other, line_num) == [ok |-> FALSE, val |-> <<"Invalid action", other, line_num>>]

\* One pass of the loop of parse_prune_file, on the line with number
\* line_num; acc is Ok with the decisions so far, or the error returned.
parse_line(acc, line, line_num) ==
    IF ~acc.ok THEN acc
    ELSE IF trim(line) = <<>> \/ Head(trim(line)) = "#" THEN acc
    ELSE bind(split_whitespace(trim(line)), LAMBDA parts :
         IF Len(parts) < 2 THEN InvalidFormat(line_num)
         ELSE IF parts[1] = <<"k", "e", "e", "p">>
              THEN Ok(Append(acc.val, Decision(parts[2], "Keep")))
         ELSE IF parts[1] = <<"d", "e", "l", "e", "t", "e">>
              THEN Ok(Append(acc.val, Decision(parts[2], "Delete")))
         ELSE InvalidAction(parts[1], line_num))

RECURSIVE parse_lines(_, _, _)
parse_lines(acc, file_lines, line_num) ==
    IF file_lines = <<>> THEN acc
    ELSE parse_lines(parse_line(acc, Head(file_lines), line_num), Tail(file_lines),
                     line_num + 1)

parse_prune_file(content) == parse_lines(Ok(<<>>), lines(content), 1)

(***************************************************************************)
(* PruneSpec: the prune file of any list of up to MaxNotes notes is        *)
(* generated, possibly edited on one line (the command word replaced, or   *)
(* the line cut after it) and parsed.  The notes are what a store can      *)
(* hold: tags, dates and content are free text.  The variable files holds  *)
(* the prune file, call the notes.                                         *)
(***************************************************************************)
MaxNotes == 2

PruneTags ==
    {<<>>, << <<"a", "r", "t">> >>,
     << <<"x">>, <<"y", "\n", "d", "e", "l", "e", "t", "e", " ", "A", "C">> >>}

PruneContents == {<<"a", " ", "b">>, <<"a", "\n", "b">>}

PruneNotes ==
    {Note(id, content, tags, date, 0, 1, None) :
        id \in Ids, content \in PruneContents, tags \in PruneTags, date \in Range(Dates)}

PruneInit ==
    /\ \E n \in 0..MaxNotes : \E prune_notes \in [1..n -> PruneNotes] :
          call = [name |-> "prune", args |-> <<prune_notes>>]
    /\ files = <<>>
    /\ result = NoResult
    /\ pc = "start"
    /\ notes = <<>>
    /\ before = <<>>
    /\ now = 0
    /\ user_version = 2
    /\ version = 0
    /\ version_before = 0
    /\ sync_state = <<>>
    /\ rounds = <<>>

GeneratePruneFile ==
    /\ pc = "start"
    /\ files' = generate_prune_file(call.args[1])
    /\ before' = files'
    /\ pc' = "generated"
    /\ UNCHANGED <<notes, now, user_version, version, version_before, sync_state, call,
                   result, rounds>>

\* The words an editing user puts in place of the command word of a line,
\* and the line left when everything after the command word is removed.
Commands == {<<"d", "e", "l", "e", "t", "e">>, <<"e", "d", "i", "t">>}

edited(file_lines, i, line) ==
    concat([k \in 1..Len(file_lines) |->
               (IF k = i THEN line ELSE file_lines[k]) \o <<"\n">>])

EditPruneFile ==
    /\ pc = "generated"
    /\ \E i \in 1..Len(lines(files)) :
          /\ Len(lines(files)[i]) >= 4
          /\ SubSeq(lines(files)[i], 1, 4) = <<"k", "e", "e", "p">>
          /\ \/ \E w \in Commands :
                   files' = edited(lines(files), i,
                                   w \o SubSeq(lines(files)[i], 5, Len(lines(files)[i])))
             \/ files' = edited(lines(files), i, <<"k", "e", "e", "p">>)
    /\ rounds' = <<"edited">>
    /\ pc' = "edited"
    /\ UNCHANGED <<notes, before, now, user_version, version, version_before, sync_state,
                   call, result>>

ParsePruneFile ==
    /\ pc \in {"generated", "edited"}
    /\ result' = parse_prune_file(files)
    /\ pc' = "parsed"
    /\ UNCHANGED <<notes, before, now, user_version, version, version_before, sync_state,
                   call, files, rounds>>

PruneNext == GeneratePruneFile \/ EditPruneFile \/ ParsePruneFile

PruneSpec == PruneInit /\ [][PruneNext]_vars

(***************************************************************************)
(* Vocabulary of the properties.                                           *)
(***************************************************************************)
RowsOf(tbl, id) == {tbl[i] : i \in rows_with_id(tbl, id)}
DistinctIds(b) == \A i, j \in 1..Len(b) : i # j => b[i].id # b[j].id
BatchIds(b) == {b[i].id : i \in 1..Len(b)}
\* The copy of id a reader gets from the table: <<>> or <<note>>.
Copy(tbl, id) == get_note_by_id(tbl, id).val
\* Every row but those of id is where it was and as it was.
OthersUntouched(old, new, id) ==
    /\ Len(new) >= Len(old)
    /\ \A i \in 1..Len(old) : old[i].id # id => new[i] = old[i]
    /\ \A i \in (Len(old) + 1)..Len(new) : new[i].id = id

(***************************************************************************)
(* C1: for two notes a and b with the same id and different updated_at,    *)
(* upsert(a) then upsert(b) leaves the same persisted row for the id as    *)
(* upsert(b) then upsert(a); the row's updated_at is the greatest among a, *)
(* b and the row persisted beforehand; and when the id was absent the row  *)
(* is the complete copy of the newer of a and b.                           *)
(***************************************************************************)
C1_UpsertCommutes ==
    (pc = "second" /\ call.args[1].id = call.args[2].id
                   /\ call.args[1].updated_at # call.args[2].updated_at) =>
        LET a == call.args[1]
            b == call.args[2]
            newer == IF a.updated_at > b.updated_at THEN a ELSE b
            prior == Copy(before, a.id)
            other == upsert_note(upsert_note(before, b).tbl, a).tbl
            stamps == {a.updated_at, b.updated_at}
                      \cup {prior[k].updated_at : k \in 1..Len(prior)}
        IN  /\ RowsOf(notes, a.id) = RowsOf(other, a.id)
            /\ Cardinality(RowsOf(notes, a.id)) = 1
            /\ \A r \in RowsOf(notes, a.id) :
                  r.updated_at \in stamps /\ \A t \in stamps : r.updated_at >= t
            /\ prior = None => get_note_by_id(notes, a.id) = Ok(Some(newer))

C1_Witness ==
    /\ pc = "second"
    /\ call.args[1].id = call.args[2].id
    /\ call.args[1].updated_at > call.args[2].updated_at
    /\ call.args[1].content # call.args[2].content
    /\ Copy(before, call.args[1].id) = None

(***************************************************************************)
(* C2: upsert(note) inserts the note verbatim when its id has no row,      *)
(* overwrites the row only when note.updated_at is strictly greater than   *)
(* the row's, leaves the row exactly as it was otherwise (ties included),  *)
(* and never changes a row of another id.                                  *)
(***************************************************************************)
C2_UpsertRule ==
    pc = "first" =>
        LET note == call.args[1]
            prior == Copy(before, note.id)
        IN  /\ result.ok
            /\ prior = None =>
                  /\ get_note_by_id(notes, note.id) = Ok(Some(note))
                  /\ Len(notes) = Len(before) + 1
            /\ (prior # None /\ note.updated_at > prior[1].updated_at) =>
                  /\ get_note_by_id(notes, note.id) = Ok(Some(note))
                  /\ Len(notes) = Len(before)
            /\ (prior # None /\ note.updated_at <= prior[1].updated_at) =>
                  notes = before
            /\ Cardinality(RowsOf(notes, note.id)) = 1
            /\ OthersUntouched(before, notes, note.id)

C2_Witness ==
    /\ pc = "first"
    /\ Copy(before, call.args[1].id) # None
    /\ Copy(before, call.args[1].id)[1].updated_at = call.args[1].updated_at
    /\ Copy(before, call.args[1].id)[1] # call.args[1]
    /\ Len(before) = 2

(***************************************************************************)
(* Vocabulary of the sync properties: the request of the round, and the    *)
(* notes a reader decodes from a table.                                    *)
(***************************************************************************)
Merged == pc = "merged" /\ call.name = "merge_notes"
client_notes == call.args[1]
client_last_sync == call.args[2]
NotesIn(tbl) == {note_of_row(tbl[i]).val : i \in 1..Len(tbl)}
Response == {result.val[k] : k \in 1..Len(result.val)}

(***************************************************************************)
(* C3: after a round whose client notes have pairwise distinct ids, the    *)
(* server's copy of a submitted id is the client note if the id was absent *)
(* or the client note strictly newer, and the prior server copy otherwise; *)
(* every note whose id was not submitted is unchanged.                     *)
(***************************************************************************)
C3_MergePersists ==
    (Merged /\ DistinctIds(client_notes)) =>
        /\ result.ok
        /\ \A k \in 1..Len(client_notes) :
              LET c == client_notes[k]
                  prior == Copy(before, c.id)
              IN  /\ prior = None => Copy(notes, c.id) = Some(c)
                  /\ (prior # None /\ c.updated_at > prior[1].updated_at) =>
                        Copy(notes, c.id) = Some(c)
                  /\ (prior # None /\ prior[1].updated_at >= c.updated_at) =>
                        RowsOf(notes, c.id) = RowsOf(before, c.id)
                  /\ Cardinality(RowsOf(notes, c.id)) = 1
        /\ \A id \in Ids \ BatchIds(client_notes) :
              RowsOf(notes, id) = RowsOf(before, id)

\* The scenario of the specification: the server holds A and a newer,
\* unrelated B; the client sends a copy of A newer than the server's, with
\* watermark 0: B alone comes back and the stored A is the client's.
C3_Witness ==
    /\ Merged
    /\ Len(before) = 2
    /\ Len(client_notes) = 1
    /\ client_last_sync = 0
    /\ Copy(before, client_notes[1].id) # None
    /\ client_notes[1].updated_at > Copy(before, client_notes[1].id)[1].updated_at
    /\ Copy(notes, client_notes[1].id) = Some(client_notes[1])
    /\ Len(result.val) = 1
    /\ result.val[1].id # client_notes[1].id

(***************************************************************************)
(* C4: for a round whose client notes have pairwise distinct ids, the      *)
(* response as a set is the server's copy of every submitted id whose      *)
(* server copy was strictly newer, and every server note newer than the    *)
(* watermark whose id was not submitted; nothing comes back for a          *)
(* submitted id that was absent, that the client won or that tied.         *)
(***************************************************************************)
C4_MergeResponse ==
    (Merged /\ DistinctIds(client_notes)) =>
        /\ Response =
              {n \in NotesIn(before) :
                  \/ \E k \in 1..Len(client_notes) :
                        /\ client_notes[k].id = n.id
                        /\ n.updated_at > client_notes[k].updated_at
                  \/ /\ n.id \notin BatchIds(client_notes)
                     /\ n.updated_at > client_last_sync}
        /\ \A k \in 1..Len(client_notes) :
              LET c == client_notes[k]
                  prior == Copy(before, c.id)
              IN  (prior = None \/ c.updated_at >= prior[1].updated_at) =>
                      \A n \in Response : n.id # c.id

C4_Witness ==
    /\ Merged
    /\ Len(client_notes) = 2
    /\ DistinctIds(client_notes)
    /\ Copy(before, client_notes[1].id) = None
    /\ client_notes[1].updated_at > client_last_sync
    /\ Copy(before, client_notes[2].id) # None
    /\ Copy(before, client_notes[2].id)[1].updated_at > client_notes[2].updated_at
    /\ Response = {Copy(before, client_notes[2].id)[1]}

(***************************************************************************)
(* C5: the response of merge_notes never contains two notes with the same  *)
(* id, whatever the batch (the same id may occur in it more than once).    *)
(***************************************************************************)
C5_ResponseIdsDistinct ==
    (call.name = "merge_notes" /\ pc \in {"merged", "replayed"}) =>
        DistinctIds(result.val)

(***************************************************************************)
(* C6: a round with an empty batch and watermark T returns the list        *)
(* since(T), in the same order, and leaves the table unchanged.            *)
(***************************************************************************)
C6_EmptyBatchIsSince ==
    (Merged /\ client_notes = <<>>) =>
        /\ result = get_notes_since(before, client_last_sync)
        /\ notes = before

C6_Witness ==
    /\ Merged
    /\ client_notes = <<>>
    /\ Len(result.val) = 2
    /\ result.val[1].deleted_at # None
    /\ result.val[1].updated_at = result.val[2].updated_at

(***************************************************************************)
(* C7: replaying a round (same batch, same watermark, no writer in         *)
(* between) leaves the table the first round produced.                     *)
(***************************************************************************)
C7_ReplayIdempotent ==
    pc = "replayed" => notes = before

C7_Witness ==
    /\ pc = "replayed"
    /\ Len(client_notes) = 2
    /\ client_notes[1].id = client_notes[2].id
    /\ client_notes[1].updated_at > client_notes[2].updated_at
    /\ Len(notes) = 2

(***************************************************************************)
(* C8: tombstones take part in last-write-wins like edits.  For a note c   *)
(* of a round (ids pairwise distinct) with a server copy s: a tombstone c  *)
(* strictly newer than an active s makes the server copy a tombstone; an   *)
(* active c strictly newer than a tombstone s makes it active again; a     *)
(* stale c of either kind changes nothing and s is returned.  upsert_note  *)
(* alone decides the same way.                                             *)
(***************************************************************************)
C8_TombstonesLastWriteWins ==
    (Merged /\ DistinctIds(client_notes)) =>
        \A k \in 1..Len(client_notes) :
            LET c == client_notes[k]
                prior == Copy(before, c.id)
                up == upsert_note(before, c).tbl
            IN  prior # None =>
                LET s == prior[1] IN
                /\ (c.deleted_at # None /\ s.deleted_at = None
                        /\ c.updated_at > s.updated_at) =>
                      /\ Copy(notes, c.id)[1].deleted_at = c.deleted_at
                      /\ Copy(up, c.id)[1].deleted_at = c.deleted_at
                /\ (c.deleted_at = None /\ s.deleted_at # None
                        /\ c.updated_at > s.updated_at) =>
                      /\ Copy(notes, c.id)[1].deleted_at = None
                      /\ Copy(up, c.id)[1].deleted_at = None
                /\ c.updated_at < s.updated_at =>
                      /\ RowsOf(notes, c.id) = RowsOf(before, c.id)
                      /\ up = before
                      /\ s \in Response

C8_Witness ==
    /\ Merged
    /\ Len(client_notes) = 1
    /\ Copy(before, client_notes[1].id) # None
    /\ Copy(before, client_notes[1].id)[1].deleted_at # None
    /\ client_notes[1].deleted_at = None
    /\ client_notes[1].updated_at > Copy(before, client_notes[1].id)[1].updated_at
    /\ Copy(notes, client_notes[1].id)[1].deleted_at = None

(***************************************************************************)
(* C9: since(T) returns exactly the persisted notes with updated_at        *)
(* strictly greater than T, tombstones included, each once, in ascending   *)
(* updated_at order.                                                       *)
(***************************************************************************)
C9_SinceExact ==
    (pc = "done" /\ call.name = "get_notes_since") =>
        /\ result.ok
        /\ Response = {n \in NotesIn(notes) : n.updated_at > call.args[1]}
        /\ Len(result.val) = Cardinality(Response)
        /\ \A i, j \in 1..Len(result.val) :
              i < j => result.val[i].updated_at <= result.val[j].updated_at
        /\ notes = before

C9_Witness ==
    /\ pc = "done"
    /\ call.name = "get_notes_since"
    /\ Len(notes) = 2
    /\ Len(result.val) = 1
    /\ result.val[1].deleted_at # None
    /\ \E i \in 1..2 : notes[i].updated_at = call.args[1]

(***************************************************************************)
(* C10: no note is ever physically removed.  Whatever call the store has   *)
(* served (create, update, soft_delete, upsert, merge_notes, search,       *)
(* since, read by id, re-open), every id that had a row before the call    *)
(* has exactly as many rows after it, and rows keep their place;           *)
(* soft_delete only sets deleted_at.                                       *)
(***************************************************************************)
C10_NeverRemoved ==
    pc = "returned" =>
        /\ NoteIds(before) \subseteq NoteIds(notes)
        /\ Len(before) <= Len(notes)
        /\ \A i \in 1..Len(before) : notes[i].id = before[i].id

C10_Witness ==
    /\ pc = "returned"
    /\ call.name = "soft_delete_note"
    /\ Len(before) = 2
    /\ Copy(before, call.args[1]) # None
    /\ Copy(before, call.args[1])[1].deleted_at = None
    /\ Copy(notes, call.args[1])[1].deleted_at # None
    /\ NoteIds(notes) = NoteIds(before)

(***************************************************************************)
(* Vocabulary of the properties of Spec: the caller holds the result of a  *)
(* call of the given name.                                                 *)
(***************************************************************************)
Returned(name) == pc = "returned" /\ call.name = name

(***************************************************************************)
(* C11: within one store the persisted updated_at of a note id never       *)
(* decreases, whatever call the store serves (create, update, soft_delete, *)
(* upsert, merge_notes), also when update or soft_delete is applied to a   *)
(* note that arrived by upsert with a client-supplied timestamp.           *)
(***************************************************************************)
C11_UpdatedAtNeverDecreases ==
    pc = "returned" =>
        \A i \in 1..Len(before) : \A j \in 1..Len(notes) :
            notes[j].id = before[i].id => notes[j].updated_at >= before[i].updated_at

(***************************************************************************)
(* C12: once an id has a row, no later call changes the row's created_at,  *)
(* and no call changes the id of a row.                                    *)
(***************************************************************************)
C12_CreatedAtFixed ==
    pc = "returned" =>
        /\ \A i \in 1..Len(before) : notes[i].id = before[i].id
        /\ \A i \in 1..Len(before) : \A j \in 1..Len(notes) :
              notes[j].id = before[i].id => notes[j].created_at = before[i].created_at

(***************************************************************************)
(* C13: every persisted note whose deleted_at is set has                   *)
(* deleted_at >= created_at, given that every note handed to upsert_note   *)
(* or merge_notes has (every note of ClientNotes has), also after a local  *)
(* soft_delete of a note that arrived through sync.                        *)
(***************************************************************************)
DeletedAfterCreated(n) == n.deleted_at # None => n.deleted_at[1] >= n.created_at

C13_DeletedAfterCreated ==
    (\A c \in ClientNotes : DeletedAfterCreated(c)) =>
        \A i \in 1..Len(notes) : DeletedAfterCreated(notes[i])

(***************************************************************************)
(* C14: create_note(content, tags, date) returns a note whose id no row    *)
(* had, with the given content, tags and date, created_at = updated_at =   *)
(* now and no deleted_at; the table is the old table with one row added    *)
(* for it; and get_note_by_id of the returned id right after yields the    *)
(* same content, the same set of tags and the same date.                   *)
(***************************************************************************)
C14_CreatePersists ==
    Returned("create_note") =>
        /\ result.ok
        /\ Len(result.val) = 1
        /\ LET n == result.val[1]
               read == get_note_by_id(notes, n.id)
           IN  /\ n.id \notin NoteIds(before)
               /\ n.content = call.args[1]
               /\ n.tags = call.args[2]
               /\ n.date = call.args[3]
               /\ n.created_at = now /\ n.updated_at = now /\ n.deleted_at = None
               /\ Len(notes) = Len(before) + 1
               /\ SubSeq(notes, 1, Len(before)) = before
               /\ notes[Len(notes)].id = n.id
               /\ notes[Len(notes)].created_at = now
               /\ notes[Len(notes)].updated_at = now
               /\ notes[Len(notes)].deleted_at = None
               /\ read.ok /\ Len(read.val) = 1
               /\ read.val[1].content = call.args[1]
               /\ Range(read.val[1].tags) = Range(call.args[2])
               /\ read.val[1].date = call.args[3]
               /\ read.val[1] = n

\* A second note is created at clock 1 with a tag that needs escaping.
C14_Witness ==
    /\ Returned("create_note")
    /\ Len(before) = 1
    /\ now = 1
    /\ \E k \in 1..Len(call.args[2]) : "\"" \in Range(call.args[2][k])
    /\ call.args[3] # None
    /\ Copy(notes, result.val[1].id) = result.val

(***************************************************************************)
(* C15: soft_delete_note(id) on an id that has a row returns Ok, sets the  *)
(* row's deleted_at and updated_at to now and leaves its id, content,      *)
(* tags, date and created_at as they were.  This is so whether or not the  *)
(* row was a tombstone already (the repeated call): there is still exactly *)
(* one row for the id, it is a tombstone, get_note_by_id finds it and so   *)
(* does every outcome of search_notes with include_deleted and no other    *)
(* filter.                                                                 *)
(***************************************************************************)
C15_SoftDelete ==
    (Returned("soft_delete_note") /\ call.args[1] \in NoteIds(before)) =>
        LET id == call.args[1] IN
        /\ result.ok
        /\ Len(notes) = Len(before)
        /\ \A i \in 1..Len(before) :
              notes[i] = IF before[i].id = id
                         THEN [before[i] EXCEPT !.deleted_at = Some(now),
                                                !.updated_at = now]
                         ELSE before[i]
        /\ Cardinality(rows_with_id(notes, id)) = 1
        /\ Copy(notes, id) # None
        /\ Copy(notes, id)[1].deleted_at = Some(now)
        /\ \A r \in search_notes(notes, [AnyQuery EXCEPT !.include_deleted = TRUE]) :
              r.ok /\ \E k \in 1..Len(r.val) : r.val[k] = Copy(notes, id)[1]

\* The second soft delete of a note, at a later time than the first.
C15_Witness ==
    /\ Returned("soft_delete_note")
    /\ Len(before) = 2
    /\ Copy(before, call.args[1]) # None
    /\ Copy(before, call.args[1])[1].deleted_at = Some(0)
    /\ Copy(notes, call.args[1])[1].deleted_at = Some(1)
    /\ Copy(notes, call.args[1])[1].updated_at = 1

(***************************************************************************)
(* C16: update_note(id, content, tags, date) on an id that has a row sets  *)
(* content, tags and date to the arguments and updated_at to now, leaves   *)
(* id, created_at and deleted_at as they were (a tombstone stays a         *)
(* tombstone, an active note stays active), and changes no other row.      *)
(***************************************************************************)
C16_Update ==
    (Returned("update_note") /\ call.args[1] \in NoteIds(before)) =>
        LET id == call.args[1]
            old == Copy(before, id)[1]
        IN  /\ result.ok
            /\ Len(notes) = Len(before)
            /\ Copy(notes, id) =
                  Some([old EXCEPT !.content = call.args[2], !.tags = call.args[3],
                                   !.date = call.args[4], !.updated_at = now])
            /\ Copy(notes, id)[1].created_at = old.created_at
            /\ Copy(notes, id)[1].deleted_at = old.deleted_at
            /\ \A i \in 1..Len(before) : before[i].id # id => notes[i] = before[i]

\* A tombstone is updated, next to another note, with new content.
C16_Witness ==
    /\ Returned("update_note")
    /\ Len(before) = 2
    /\ Copy(before, call.args[1]) # None
    /\ Copy(before, call.args[1])[1].deleted_at # None
    /\ Copy(before, call.args[1])[1].content # call.args[2]
    /\ Copy(before, call.args[1])[1].updated_at # now
    /\ Copy(notes, call.args[1])[1].deleted_at # None

(***************************************************************************)
(* C17: update_note and soft_delete_note with an id that has no row return *)
(* Ok and leave the table as it was: no row added, no row changed.         *)
(***************************************************************************)
C17_MissingIdNoOp ==
    ((Returned("update_note") \/ Returned("soft_delete_note"))
        /\ call.args[1] \notin NoteIds(before)) =>
        /\ result.ok
        /\ notes = before

C17_Witness ==
    /\ Returned("update_note")
    /\ Len(before) = 1
    /\ call.args[1] \notin NoteIds(before)
    /\ notes = before

(***************************************************************************)
(* Vocabulary of the search properties: the query of the call, the ids a   *)
(* result lists, and the ids a query finds in the table when it is not     *)
(* capped (every admissible order lists the same ids).                     *)
(***************************************************************************)
Searched == pc = "searched" /\ call.name = "search_notes"
query == call.args[1]
Listed(r) == {r.val[k].id : k \in 1..Len(r.val)}
Finds(tbl, q) == UNION {Listed(r) : r \in search_notes(tbl, [q EXCEPT !.limit = None])}
TextOnly(q) == [AnyQuery EXCEPT !.include_deleted = TRUE, !.text = q.text]
TagsOnly(q) == [AnyQuery EXCEPT !.include_deleted = TRUE, !.tags = q.tags]
DatesOnly(q) ==
    [AnyQuery EXCEPT !.include_deleted = TRUE, !.date_from = q.date_from,
                     !.date_to = q.date_to]
Visible(tbl, q) ==
    {tbl[i].id : i \in {j \in 1..Len(tbl) : q.include_deleted \/ tbl[j].deleted_at = None}}

(***************************************************************************)
(* C18: without include_deleted search_notes returns no note whose         *)
(* deleted_at is set, whatever the other filters and the cap.  An uncapped *)
(* search returns exactly the notes that pass the text filter, the tag     *)
(* filter, the date filter and the deletion filter (each taken alone):     *)
(* the four combine by AND, and with include_deleted a tombstone is        *)
(* returned exactly when it passes the other three.                        *)
(***************************************************************************)
C18_FiltersCombineByAnd ==
    Searched =>
        /\ result.ok
        /\ \A k \in 1..Len(result.val) : result.val[k] \in NotesIn(notes)
        /\ ~query.include_deleted =>
              \A k \in 1..Len(result.val) : result.val[k].deleted_at = None
        /\ query.limit = None =>
              Listed(result) = Finds(notes, TextOnly(query))
                               \cap Finds(notes, TagsOnly(query))
                               \cap Finds(notes, DatesOnly(query))
                               \cap Visible(notes, query)

\* Two tombstones, a query with include_deleted and all three other filters:
\* one tombstone passes them all and is returned, the other fails one only.
C18_Witness ==
    /\ Searched
    /\ query.include_deleted /\ query.limit = None
    /\ query.text # None /\ query.tags # <<>> /\ query.date_from # None
    /\ Len(notes) = 2
    /\ \A i \in 1..2 : notes[i].deleted_at # None
    /\ Cardinality(Listed(result)) = 1
    /\ Cardinality(Finds(notes, TextOnly(query))) = 2
    /\ Cardinality(Finds(notes, DatesOnly(query))) = 2

(***************************************************************************)
(* C19: search_notes lists its matches by non-increasing updated_at.  So   *)
(* when the table holds a tombstone whose updated_at is its deleted_at and *)
(* is greater than the updated_at of every other note (a soft delete later *)
(* than every other change), a search with include_deleted and no other    *)
(* filter lists that tombstone first.                                      *)
(***************************************************************************)
C19_NewestFirst ==
    Returned("search_notes") =>
        /\ result.ok
        /\ \A i, j \in 1..Len(result.val) :
              i < j => result.val[i].updated_at >= result.val[j].updated_at
        /\ call.args[1] = [AnyQuery EXCEPT !.include_deleted = TRUE] =>
              \A i \in 1..Len(notes) :
                  (/\ notes[i].deleted_at = Some(notes[i].updated_at)
                   /\ \A j \in 1..Len(notes) :
                         j # i => notes[j].updated_at < notes[i].updated_at)
                  => /\ Len(result.val) = Len(notes)
                     /\ result.val[1].id = notes[i].id

\* The scenario of the specification: N1 and N2 are created, N2 is soft
\* deleted later, and the search with include_deleted returns [N2, N1].
C19_Witness ==
    /\ Returned("search_notes")
    /\ call.args[1] = [AnyQuery EXCEPT !.include_deleted = TRUE]
    /\ Len(notes) = 2
    /\ notes[1].created_at = 0 /\ notes[1].updated_at = 0 /\ notes[1].deleted_at = None
    /\ notes[2].created_at = 0 /\ notes[2].deleted_at = Some(1)
    /\ Len(result.val) = 2
    /\ result.val[1].id = notes[2].id
    /\ result.val[2].id = notes[1].id
    /\ \A r \in search_notes(notes, AnyQuery) : Listed(r) = {notes[1].id}

(***************************************************************************)
(* C20: with a cap N the result of search_notes is the first N notes of an *)
(* ordered list of all the matches (the uncapped search), or that whole    *)
(* list when it has fewer than N notes: no note left out has a greater     *)
(* updated_at than a note returned.                                        *)
(***************************************************************************)
C20_CapAfterOrdering ==
    (Searched /\ query.limit # None) =>
        LET N == query.limit[1]
            all == search_notes(notes, [query EXCEPT !.limit = None])
        IN  /\ result.ok
            /\ \E r \in all :
                  /\ r.ok
                  /\ Len(result.val) = IF Len(r.val) < N THEN Len(r.val) ELSE N
                  /\ \A k \in 1..Len(result.val) : result.val[k] = r.val[k]
            /\ \A r \in all : \A k \in 1..Len(r.val) :
                  r.val[k].id \notin Listed(result) =>
                      \A m \in 1..Len(result.val) :
                          result.val[m].updated_at >= r.val[k].updated_at

\* Two matches, the older one first in the table, and a cap of 1: the newer
\* one is returned.
C20_Witness ==
    /\ Searched
    /\ query.limit = Some(1)
    /\ Len(notes) = 2
    /\ notes[1].updated_at < notes[2].updated_at
    /\ Finds(notes, query) = NoteIds(notes)
    /\ Len(result.val) = 1
    /\ result.val[1].id = notes[2].id

(***************************************************************************)
(* Vocabulary of the filter properties: the tags of a row as a reader      *)
(* decodes them, and the text a string contains (str::contains: the same   *)
(* characters, in the same case, one after the other).                     *)
(***************************************************************************)
TagsOf(row) == {note_of_row(row).val.tags[k] : k \in 1..Len(note_of_row(row).val.tags)}
QueryTags(q) == {q.tags[k] : k \in 1..Len(q.tags)}
contains(text, sub) ==
    \E i \in 0..Len(text) :
        /\ i + Len(sub) <= Len(text)
        /\ SubSeq(text, i + 1, i + Len(sub)) = sub
RowOf(tbl, id) == CHOOSE row \in RowsOf(tbl, id) : TRUE

(***************************************************************************)
(* C21: search_notes returns a note only if every tag of the query is      *)
(* equal to one of the tags of the note: a query tag that is a part of a   *)
(* tag of the note, at its start or elsewhere, does not select the note.   *)
(***************************************************************************)
C21_TagFilterExact ==
    Searched =>
        \A k \in 1..Len(result.val) : QueryTags(query) \subseteq TagsOf(RowOf(notes, result.val[k].id))

(***************************************************************************)
(* C22: the text filter of search_notes passes a note if and only if the   *)
(* query text occurs in the content of the note as it is written, in the   *)
(* same letter case and with no character of it standing for another.      *)
(***************************************************************************)
C22_TextFilterLiteral ==
    (Searched /\ query.text # None) =>
        \A i \in 1..Len(notes) :
            notes[i].id \in Finds(notes, TextOnly(query))
                <=> contains(notes[i].content, query.text[1])

(***************************************************************************)
(* C23: the date filter of search_notes is inclusive at both ends.  A      *)
(* dated note passes it if and only if its day is not before date_from,    *)
(* when date_from is given, and not after date_to, when date_to is given:  *)
(* a note dated date_from or date_to passes, a note dated before           *)
(* date_from or after date_to does not, and a bound that is not given      *)
(* excludes nothing.  Days are compared by their place in the calendar.    *)
(***************************************************************************)
DayOf(date) == CHOOSE k \in 1..Len(Days) : Days[k] = date

C23_DateRangeInclusive ==
    Searched =>
        \A i \in 1..Len(notes) :
            notes[i].date # None =>
                (notes[i].id \in Finds(notes, DatesOnly(query))
                    <=> /\ query.date_from # None => DayOf(query.date_from) <= DayOf(notes[i].date)
                        /\ query.date_to # None => DayOf(notes[i].date) <= DayOf(query.date_to))

\* A range of two days and no other filter: the note dated date_to is
\* returned.
C23_Witness ==
    /\ Searched
    /\ query = [AnyQuery EXCEPT !.date_from = Days[2], !.date_to = Days[3]]
    /\ notes[1].date = query.date_to
    /\ notes[1].id \in Listed(result)

(***************************************************************************)
(* C24: the persisted version changes only by a step from v to v + 1, with *)
(* v + 1 at most the latest version: the transitions are applied in        *)
(* increasing order, none is skipped, none is applied twice, and the       *)
(* version never decreases over any sequence of open_db calls.  An open_db *)
(* call that found a version between 0 and the latest succeeds and leaves  *)
(* the latest version persisted.                                           *)
(***************************************************************************)
C24_MigrateInOrder ==
    /\ [][user_version' # user_version =>
              user_version' = user_version + 1 /\ user_version' <= LatestVersion]_vars
    /\ []((Returned("open_db") /\ version_before \in 0..LatestVersion) =>
              result.ok /\ user_version = LatestVersion)

\* open_db on a fresh file has returned.
C24_Witness ==
    /\ Returned("open_db")
    /\ version_before = 0
    /\ user_version = LatestVersion
    /\ result.ok

(***************************************************************************)
(* C25: an open_db call that found a version greater than the latest this  *)
(* build knows changes neither the persisted version nor a row, at any of  *)
(* its steps, and returns an error.                                        *)
(***************************************************************************)
C25_NewerVersionRefused ==
    (call.name = "open_db" /\ version_before > LatestVersion) =>
        /\ user_version = version_before
        /\ notes = before
        /\ sync_state = <<>>
        /\ pc = "returned" => ~result.ok

\* The call has failed on a store of version 3 that holds rows.
C25_Witness ==
    /\ Returned("open_db")
    /\ version_before = LatestVersion + 1
    /\ notes # <<>>
    /\ ~result.ok

(***************************************************************************)
(* C26: sync_state is a map with one value per key.  A set of key k to v   *)
(* leaves the store with exactly one row for k, holding v, with the value  *)
(* of every other key and every note as it was; no other call changes the *)
(* table, so a get of k returns v until the next set of k.  A get returns  *)
(* the value of the row of its key and never an error, and absent when the *)
(* table has no row for the key (no set of that key has happened).         *)
(***************************************************************************)
C26_SyncStateIsMap ==
    /\ [][IF pc' = "returned" /\ call'.name = "set_sync_state"
          THEN /\ get_sync_state(sync_state', call'.args[1]) = Ok(Some(call'.args[2]))
               /\ Cardinality(rows_with_key(sync_state', call'.args[1])) = 1
               /\ \A k \in Keys \ {call'.args[1]} :
                     /\ get_sync_state(sync_state', k) = get_sync_state(sync_state, k)
                     /\ Cardinality(rows_with_key(sync_state', k))
                            = Cardinality(rows_with_key(sync_state, k))
               /\ notes' = notes
          ELSE call'.name # "set_last_sync" => sync_state' = sync_state]_vars
    /\ [](Returned("get_sync_state") =>
              /\ result.ok
              /\ rows_with_key(sync_state, call.args[1]) = {} => result.val = None
              /\ \A i \in rows_with_key(sync_state, call.args[1]) :
                     result.val = Some(sync_state[i].value))

\* A set of a key has returned on a store that holds notes and a value for
\* another key.
C26_Witness ==
    /\ Returned("set_sync_state")
    /\ Len(sync_state) = 2
    /\ notes # <<>>
    /\ sync_state[1].key # call.args[1]
    /\ sync_state[2] = [key |-> call.args[1], value |-> <<"x">>]

(***************************************************************************)
(* Vocabulary of the lookup properties: the notes of the table whose id    *)
(* starts with the argument, and what the claim asks of a lookup that is   *)
(* to choose among the notes of S.                                         *)
(***************************************************************************)
Looked(name) == pc = "looked" /\ call.name = name
StartingWith(tbl, id) == {n \in NotesIn(tbl) : starts_with(n.id, id)}
Active(S) == {n \in S : n.deleted_at = None}
Resolves(S) ==
    /\ Looked("get_note_by_id") =>
          /\ result.ok
          /\ result.val # None => result.val[1].id = call.args[1]
          /\ result.val # None => result.val[1] \in NotesIn(notes)
          /\ result.val = None => call.args[1] \notin NoteIds(notes)
    /\ Looked("LocalDb::get_note_by_id") =>
          IF call.args[1] \in NoteIds(notes)
          THEN result = Ok(Copy(notes, call.args[1]))
          ELSE IF S = {} THEN result = Ok(None)
          ELSE IF Cardinality(S) = 1 THEN result.ok /\ result.val # None /\ result.val[1] \in S
          ELSE ~result.ok

(***************************************************************************)
(* C27 as stated: get_note_by_id of the core returns the note whose id is  *)
(* the argument, or absent.  LocalDb::get_note_by_id returns the note      *)
(* whose id is the argument if there is one; otherwise the only note whose *)
(* id starts with the argument, absent if there is none, and an error if   *)
(* there are several.                                                      *)
(***************************************************************************)
C27_PrefixLookup == Resolves(StartingWith(notes, call.args[1]))

(***************************************************************************)
(* C27 amended: the same, where the notes the start of an id is looked up  *)
(* among are the active notes only (a note whose id is the argument is     *)
(* returned whether deleted or not).                                       *)
(***************************************************************************)
C27_PrefixLookupActive == Resolves(Active(StartingWith(notes, call.args[1])))

\* Two active notes whose ids start with the argument: the lookup fails.
C27_Witness ==
    /\ Looked("LocalDb::get_note_by_id")
    /\ call.args[1] = <<"A">>
    /\ Cardinality(Active(StartingWith(notes, call.args[1]))) = 2
    /\ result = Ambiguous(<<"A">>, 2)

(***************************************************************************)
(* C28: a row whose tags column does not decode makes every read of it     *)
(* fail.  get_note_by_id of its id fails.  A search that returns Ok lists  *)
(* no such row, and unless the cap is reached no such row passes its       *)
(* filters.  A get_notes_since that returns Ok has no such row after its   *)
(* timestamp.  A merge_notes round that returns Ok has no such row among   *)
(* the ids of its batch nor after its watermark.  So the row is never left *)
(* out of a successful result it belongs to, and never listed with tags it *)
(* does not have.                                                          *)
(***************************************************************************)
Undecodable(row) == ~from_json(row.tags).ok

C28_CorruptTagsAreFatal ==
    /\ (/\ Looked("get_note_by_id")
        /\ \E i \in rows_with_id(notes, call.args[1]) : Undecodable(notes[i])) => ~result.ok
    /\ (Searched /\ result.ok) =>
          /\ \A k \in 1..Len(result.val) :
                \A i \in rows_with_id(notes, result.val[k].id) :
                    from_json(notes[i].tags) = Ok(result.val[k].tags)
          /\ (query.limit = None \/ Len(result.val) < query.limit[1]) =>
                \A i \in 1..Len(notes) :
                    Undecodable(notes[i]) => ~row_matches(notes[i], query)
    /\ (pc = "done" /\ call.name = "get_notes_since" /\ result.ok) =>
          \A i \in 1..Len(notes) :
              Undecodable(notes[i]) => notes[i].updated_at <= call.args[1]
    /\ (pc = "merged" /\ call.name = "merge_notes" /\ result.ok) =>
          \A i \in 1..Len(before) :
              Undecodable(before[i]) =>
                  /\ before[i].id \notin BatchIds(call.args[1])
                  /\ before[i].updated_at <= call.args[2]

\* A search whose filters the undecodable row and a well-formed row both
\* pass has failed.
C28_Witness ==
    /\ Searched
    /\ Len(notes) = 2
    /\ \A i \in 1..2 : row_matches(notes[i], query)
    /\ \E i \in 1..2 : Undecodable(notes[i])
    /\ query.limit = None
    /\ ~result.ok

(***************************************************************************)
(* C29: sync rounds of different users do not interfere.  A statement of   *)
(* the round of one user changes no file but that user's (the round of the *)
(* other user has not moved, and its file is as it was).  When both rounds *)
(* are done, the files and the two responses are those of handling the two *)
(* requests one after the other, in either order, from the files the       *)
(* requests found.                                                         *)
(***************************************************************************)
OneAfterTheOther(u1, u2) ==
    LET first == perform_sync(before, u1, rounds[u1].request)
        second == perform_sync(first.files, u2, rounds[u2].request)
    IN  /\ files = second.files
        /\ rounds[u1].response = first.response
        /\ rounds[u2].response = second.response

C29_UsersDoNotInterfere ==
    /\ [][\A u \in Users :
              rounds'[u] = rounds[u] => files'[user_db_path(u)] = files[user_db_path(u)]]_vars
    /\ []((pc = "serving" /\ \A u \in Users : rounds[u].pc = "done") =>
              \A u1, u2 \in Users : u1 # u2 => OneAfterTheOther(u1, u2))

\* Both rounds are done, each has written to its user's file, and the two
\* files differ.
C29_Witness ==
    /\ pc = "serving"
    /\ \A u \in Users :
          /\ rounds[u].pc = "done"
          /\ rounds[u].response.ok
          /\ files[user_db_path(u)].notes # before[user_db_path(u)].notes
    /\ \E u1, u2 \in Users : files[user_db_path(u1)].notes # files[user_db_path(u2)].notes

(***************************************************************************)
(* C30: after each round of the device, for every note of the server whose *)
(* updated_at is at or before the watermark of the device, the store of    *)
(* the device holds a copy of that id whose updated_at is at least the     *)
(* server's.                                                               *)
(***************************************************************************)
Watermark == get_last_sync(sync_state).val
ServerNotes == NotesIn(files[user_db_path(Owner)].notes)

C30_WatermarkSound ==
    (pc = "synced" /\ result.ok) =>
        \A s \in ServerNotes :
            s.updated_at <= Watermark =>
                \E c \in NotesIn(notes) : c.id = s.id /\ c.updated_at >= s.updated_at

(***************************************************************************)
(* C31: when a merge_notes round has failed after the writes of the first  *)
(* notes of its batch and the same round has then run to completion on the *)
(* table the failure left, the table is the one a single round that did    *)
(* not fail leaves on the table the first attempt found.                   *)
(***************************************************************************)
C31_RetryIsSafe ==
    (pc = "retried" /\ call.name = "merge_notes") =>
        /\ result.ok
        /\ notes = merge_notes(before, call.args[1], call.args[2]).tbl

\* The first attempt failed after one of two passes, having written a note,
\* with the write of the second pass still to come.
C31_Witness ==
    /\ pc = "retried"
    /\ Len(call.args[1]) = 2
    /\ rounds[1] = [passes |-> 1, ok |-> FALSE]
    /\ upsert_note(before, call.args[1][1]).tbl # before
    /\ notes # upsert_note(before, call.args[1][1]).tbl

(***************************************************************************)
(* C32.  The delete command given no ids fails with "No notes found" and   *)
(* changes nothing when the store has no active note; otherwise, once      *)
(* confirmed, it soft-deletes one note, an active note with the greatest   *)
(* updated_at, and leaves every other row as it was.  Given ids and        *)
(* confirmed for each, a successful run soft-deletes exactly the notes     *)
(* with those ids, and a search that excludes deleted notes then returns   *)
(* none of them.  A run is confirmed by --yes or by "y" at every prompt.   *)
(***************************************************************************)
Confirmed ==
    call.args[2] \/ \A k \in DOMAIN call.args[3] : answered_yes(call.args[3][k])

SoftDeleted(old, new) ==
    /\ new.deleted_at # None
    /\ [new EXCEPT !.deleted_at = None, !.updated_at = 0]
          = [old EXCEPT !.deleted_at = None, !.updated_at = 0]

DeletedExactly(S) ==
    /\ Len(notes) = Len(before)
    /\ \A i \in 1..Len(before) :
          IF before[i].id \in S THEN SoftDeleted(before[i], notes[i])
                                ELSE notes[i] = before[i]

ActiveRows(tbl) == {i \in 1..Len(tbl) : tbl[i].deleted_at = None}

UpdatedAt(tbl, id) == {tbl[i].updated_at : i \in {j \in 1..Len(tbl) : tbl[j].id = id}}

C33_NoLostUpdate ==
    /\ [][\A old \in UpdatedAt(notes, Contended) :
             \A new \in UpdatedAt(notes', Contended) : new >= old]_vars
    /\ []((pc = "running" /\ \A k \in 1..2 : rounds[k].pc = "done") =>
             UpdatedAt(notes, Contended)
                = {Max(UpdatedAt(before, Contended)
                       \cup {rounds[k].note.updated_at : k \in 1..2})})

(***************************************************************************)
(* C34.  Every note in the response of a merge_notes round is identical to *)
(* the server's persisted copy of that id at the end of the round, for     *)
(* every client batch, a batch that holds the same id more than once with  *)
(* different updated_at values included.                                   *)
(***************************************************************************)
C34_ResponseIsPersisted ==
    (pc = "merged" /\ call.name = "merge_notes" /\ result.ok) =>
        \A k \in 1..Len(result.val) :
            \E i \in 1..Len(notes) : notes[i] = row_of_note(result.val[k])

(***************************************************************************)
(* C35.  After a merge_notes round completes successfully, for every note  *)
(* n of the client batch, repeated ids allowed, the server holds a         *)
(* persisted copy of n.id whose updated_at is greater than or equal to     *)
(* n.updated_at: no submitted note is dropped in favour of an older server *)
(* copy.                                                                   *)
(***************************************************************************)
C35_NoSubmittedNoteDropped ==
    (pc = "merged" /\ call.name = "merge_notes" /\ result.ok) =>
        \A k \in 1..Len(call.args[1]) :
            \E i \in 1..Len(notes) :
                /\ notes[i].id = call.args[1][k].id
                /\ notes[i].updated_at >= call.args[1][k].updated_at

\* A round has completed whose batch held the same id twice, the second
\* copy newer than the first and than the copy the server had.
C35_Witness ==
    /\ pc = "merged"
    /\ result.ok
    /\ Len(call.args[1]) = 2
    /\ call.args[1][1].id = call.args[1][2].id
    /\ call.args[1][1].updated_at < call.args[1][2].updated_at
    /\ \E i \in 1..Len(before) :
          /\ before[i].id = call.args[1][1].id
          /\ before[i].updated_at < call.args[1][2].updated_at
          /\ notes[i].updated_at = call.args[1][2].updated_at

(***************************************************************************)
(* C36.  The read operations read_by_id, search, since and sync-state get  *)
(* leave the store unchanged: after any of them, on success or on error,   *)
(* every note row, every sync-state entry and the schema version are the   *)
(* same as before the call.                                                *)
(***************************************************************************)
C36_ReadsLeaveStore ==
    [][(pc = "idle" /\ pc' = "returned") =>
          /\ call'.name \in {"get_note_by_id", "search_notes", "get_notes_since",
                             "get_sync_state"}
          /\ notes' = notes
          /\ sync_state' = sync_state
          /\ user_version' = user_version]_vars

\* A search has failed on a store that holds notes and sync-state entries.
C36_Witness ==
    /\ pc = "returned"
    /\ call.name = "search_notes"
    /\ ~result.ok
    /\ Len(notes) = 2
    /\ sync_state # <<>>

(***************************************************************************)
(* C37.  Migration is resumable: in every reachable state, the state left  *)
(* by a migrate call that failed part-way through a batch included, the    *)
(* persisted version v means that exactly the first v batches have been    *)
(* applied completely and no later batch has been applied in part, and a   *)
(* later migrate call on that store reaches the latest version.            *)
(***************************************************************************)
C37_MigrationResumable ==
    /\ files = SchemaAt(user_version)
    /\ migrate_batches(StoreDb, Unfailing).ok
    /\ migrate_batches(StoreDb, Unfailing).db.user_version = LatestVersion

(***************************************************************************)
(* C39.  A device-login challenge is reported as Success(user) only while  *)
(* it exists, a user id has been attached to it, and the current time is   *)
(* strictly before its expiry (creation time + 600 s); it is Pending while *)
(* it exists unexpired with no user attached, and NoChallenge if it was    *)
(* never created, was deleted, or has expired.  Attaching a user to a      *)
(* challenge after its expiry never makes it Success, and a challenge that *)
(* is NoChallenge through expiry never becomes Pending or Success again.   *)
(***************************************************************************)
Challenge(device_code) ==
    {DeviceAuth[i] : i \in {j \in 1..Len(DeviceAuth) : DeviceAuth[j].device_code = device_code}}

Expected(device_code) ==
    IF \A c \in Challenge(device_code) : now >= c.created_at + 600 THEN NoChallenge
    ELSE IF \E c \in Challenge(device_code) : c.user_id = None THEN Pending
    ELSE Success((CHOOSE c \in Challenge(device_code) : TRUE).user_id[1])

C39_ChallengeStatus ==
    /\ [](\A d \in DeviceCodes : Cardinality(Challenge(d)) <= 1)
    /\ []((pc = "returned" /\ call.name = "get_token_from_device_challenge") =>
             /\ result.ok
             /\ result.val = Expected(call.args[1]))
    /\ [][\A d \in DeviceCodes :
             (Challenge(d) # {} /\ Expected(d) = NoChallenge) =>
                 /\ Expected(d)' = NoChallenge
                 /\ get_token_from_device_challenge(DeviceAuth', d, now').val = NoChallenge]_vars

\* A poll has answered NoChallenge for a challenge that exists, has a user
\* attached and is polled exactly at its expiry.
C39_Witness ==
    /\ pc = "returned"
    /\ call.name = "get_token_from_device_challenge"
    /\ result.val = NoChallenge
    /\ \E c \in Challenge(call.args[1]) : c.user_id # None /\ now = c.created_at + 600

(***************************************************************************)
(* C38.  Opening a store preserves its data: open on an existing store at  *)
(* any recognised version keeps every note, with the same id, content,     *)
(* tags, date, created_at, updated_at and deleted_at, and every sync-state *)
(* entry; open on a store that is already at the latest version changes    *)
(* nothing at all, so that a second open changes nothing.                  *)
(***************************************************************************)
C38_OpenPreservesData ==
    [][(pc = "idle" /\ pc' = "returned" /\ call'.name = "open_db") =>
          /\ user_version \in 0..LatestVersion =>
                /\ result'.ok
                /\ user_version' = LatestVersion
                /\ notes' = notes
                /\ sync_state' = sync_state
          /\ user_version = LatestVersion =>
                /\ files' = files
                /\ user_version' = user_version]_vars

\* A store at version 1 that holds notes and sync-state entries has been
\* opened and brought to version 2.
C38_Witness ==
    /\ pc = "returned"
    /\ call.name = "open_db"
    /\ version_before = 1
    /\ user_version = 2
    /\ files = SchemaAt(2)
    /\ Len(notes) = 2
    /\ sync_state # <<>>

(***************************************************************************)
(* C40.  An unedited prune file deletes nothing: for every list of notes,  *)
(* parse_prune_file(generate_prune_file(notes)) succeeds and yields        *)
(* exactly one decision per note, in the same order, each with that note's *)
(* id and action Keep.  A Delete decision arises only from a line whose    *)
(* first word is "delete", and a line that is neither blank nor a comment  *)
(* and has an unknown first word or fewer than two words makes the whole   *)
(* parse fail with no decisions returned.                                  *)
(***************************************************************************)
Unedited == files = before /\ rounds = <<>>

CommandLines ==
    {i \in 1..Len(lines(files)) :
        trim(lines(files)[i]) # <<>> /\ Head(trim(lines(files)[i])) # "#"}

FirstWord(i) == split_whitespace(lines(files)[i])[1]

C40_UneditedFileKeepsAll ==
    (pc = "parsed") =>
        /\ Unedited =>
              /\ result.ok
              /\ result.val = [k \in 1..Len(call.args[1]) |->
                                  Decision(call.args[1][k].id, "Keep")]
        /\ result.ok =>
              Cardinality({k \in 1..Len(result.val) : result.val[k].action = "Delete"})
                 = Cardinality({i \in CommandLines :
                                   FirstWord(i) = <<"d", "e", "l", "e", "t", "e">>})
        /\ (\E i \in CommandLines :
               \/ FirstWord(i) \notin {<<"k", "e", "e", "p">>, <<"d", "e", "l", "e", "t", "e">>}
               \/ Len(split_whitespace(lines(files)[i])) < 2) =>
              ~result.ok

====
